---- MODULE Spec2Model ----
(***************************************************************************)
(* A model of the Miles tool layer: card-name resolution                   *)
(* (data_storage.get_credit_card_by_name), catalog search                  *)
(* (tools.credit_card_search), the transfer-partner lookups                *)
(* (tools.lookup_transfer_partners, tools.get_transfer_bonuses), the       *)
(* valuation tables (data_storage.get_user_valuations,                     *)
(* tools.get_valuations), tools.benefits_search, tools.get_credit_card_info,*)
(* tools.get_top_card_offers, the wallet view                              *)
(* (data_storage.get_user_wallet), the mutators of user.json               *)
(* (add_card_to_wallet, remove_card_from_wallet, set_custom_valuation,     *)
(* add_merchant_credit, remove_merchant_credit), alone and interleaved,    *)
(* and the update of the data files (miles.download_data_files).           *)
(*                                                                         *)
(* Strings are sequences of one-character strings, so that lower(),        *)
(* strip(), replace() and the `in` substring test are computed.            *)
(* The state is the content of the data files, the clock, the tool call    *)
(* that was made last and the value it returned.                           *)
(***************************************************************************)
EXTENDS Integers, Sequences, FiniteSets, TLC

VARIABLES
    credit_cards,       \* credit_cards.json: a sequence of card records
    transfer_partners,  \* transfer_partners.json: key/partners pairs in file order
    valuations,         \* the merged valuation table get_user_valuations() returns
    valuations_json,    \* valuations.json: None, or its "valuations" entries in file order
    user_data,          \* user.json: None, or the object with the keys it holds
    now,                \* datetime.now(), in hours
    call,               \* the last call: function name and arguments
    ret,                \* the value the last call returned
    loaded,             \* per writer: the mutator in flight between its load and its save
    download_cache      \* .download_cache.json: the object it holds, <<>> when absent

vars == <<credit_cards, transfer_partners, valuations, valuations_json, user_data,
         now, call, ret, loaded, download_cache>>

\* What a tool call leaves as it is: the data files, the clock and the
\* mutators in flight.
files == <<credit_cards, transfer_partners, valuations, valuations_json, user_data, now,
          loaded, download_cache>>

-----------------------------------------------------------------------------
(* Bounds of the model.                                                    *)

\* Longest catalog of the name-resolution runs.
MaxCards == 3

\* Longest catalog of the search runs drawn from SearchCards.
MaxSearchCards == 2

\* Most source programs in transfer_partners.json.
MaxPrograms == 2

\* Most entries of valuations.json.
MaxValuations == 2

-----------------------------------------------------------------------------
(* Python values.                                                          *)

\* A JSON object is a record that holds exactly the keys that are present.
\* dict.get(key, default):
Get(d, key, default) == IF key \in DOMAIN d THEN d[key] ELSE default

\* Python's None as a return value.
None == [none |-> TRUE]

\* Truthiness of the str-or-None value d.get(key): None and "" are falsy.
Truthy(d, key) == key \in DOMAIN d /\ d[key] # <<>>

Min(S) == CHOOSE x \in S : \A y \in S : x <= y

Max(S) == CHOOSE x \in S : \A y \in S : x >= y

-----------------------------------------------------------------------------
(* str methods.                                                            *)

\* str.lower() on one character.
LowerChar(c) ==
    CASE c = "A" -> "a"
      [] c = "B" -> "b"
      [] c = "C" -> "c"
      [] c = "D" -> "d"
      [] c = "U" -> "u"
      [] c = "X" -> "x"
      [] OTHER -> c

\* str.lower()
Lower(s) == [i \in DOMAIN s |-> LowerChar(s[i])]

IsSpace(c) == c = " "

\* str.strip(): drop leading and trailing whitespace.
Strip(s) ==
    LET keep == {i \in DOMAIN s : ~IsSpace(s[i])}
    IN  IF keep = {} THEN <<>> ELSE SubSeq(s, Min(keep), Max(keep))

\* needle in hay (substring test; the empty string is in every string).
Contains(needle, hay) ==
    \E i \in 0..(Len(hay) - Len(needle)) :
        SubSeq(hay, i + 1, i + Len(needle)) = needle

\* s.lower().replace(" ", "_").replace("-", "_")
NormalizeKey(s) ==
    [i \in DOMAIN s |->
        IF LowerChar(s[i]) \in {" ", "-"} THEN "_" ELSE LowerChar(s[i])]

-----------------------------------------------------------------------------
(* data_storage.get_credit_card_by_name                                    *)

FUZZY_MATCH_THRESHOLD == 85

\* Indices of the cards the dict comprehension keeps: card.get("card_name") truthy.
NamedCards(cards) == {i \in DOMAIN cards : Truthy(cards[i], "card_name")}

\* The lookup with the first record of a name kept.
CardLookupFirst(cards, name) ==
    Min({i \in NamedCards(cards) : cards[i].card_name = name})

\* card_lookup[name]: the comprehension overwrites, so the last record wins.
CardLookup(cards, name) ==
    Max({i \in NamedCards(cards) : cards[i].card_name = name})

\* list(card_lookup.keys()): each distinct name once, in order of first insertion.
RECURSIVE CardNamesFrom(_, _, _)
CardNamesFrom(cards, i, acc) ==
    IF i > Len(cards) THEN acc
    ELSE IF i \in NamedCards(cards)
            /\ ~\E k \in DOMAIN acc : acc[k] = cards[i].card_name
         THEN CardNamesFrom(cards, i + 1, Append(acc, cards[i].card_name))
         ELSE CardNamesFrom(cards, i + 1, acc)

CardNames(cards) == CardNamesFrom(cards, 1, <<>>)

\* rapidfuzz process.extractOne(query, choices, scorer, score_cutoff): scan the
\* choices in order, keep a choice whose score reaches the cutoff and beats the
\* best so far.  wr[name] is fuzz.WRatio(query, name).  Returns the position of
\* the choice, 0 for None.
RECURSIVE ExtractOneFrom(_, _, _, _, _)
ExtractOneFrom(choices, wr, score_cutoff, k, best) ==
    IF k > Len(choices) THEN best
    ELSE IF wr[choices[k]] >= score_cutoff
            /\ (best = 0 \/ wr[choices[k]] > wr[choices[best]])
         THEN ExtractOneFrom(choices, wr, score_cutoff, k + 1, k)
         ELSE ExtractOneFrom(choices, wr, score_cutoff, k + 1, best)

\* The same scan with a cutoff that the score must exceed.
ExtractOneAboveCutoff(choices, wr, score_cutoff) ==
    ExtractOneFrom(choices, wr, score_cutoff + 1, 1, 0)

ExtractOne(choices, wr, score_cutoff) ==
    ExtractOneFrom(choices, wr, score_cutoff, 1, 0)

\* The exact pass without lower() on the catalog names.
ExactMatchCaseSensitive(card_names, card_name) ==
    LET card_name_lower == Strip(Lower(card_name))
        hits == {k \in DOMAIN card_names : card_name_lower = card_names[k]}
    IN  IF hits = {} THEN 0 ELSE Min(hits)

\* The exact case-insensitive pass: the first name whose lower() equals
\* card_name.lower().strip(); 0 when there is none.
ExactMatch(card_names, card_name) ==
    LET card_name_lower == Strip(Lower(card_name))
        hits == {k \in DOMAIN card_names : card_name_lower = Lower(card_names[k])}
    IN  IF hits = {} THEN 0 ELSE Min(hits)

\* get_credit_card_by_name with the threshold as a parameter.  Returns None or
\* [card |-> index of the record returned, via |-> the path that found it].
ResolveWith(cards, card_name, wr, threshold) ==
    IF cards = <<>> THEN None
    ELSE LET card_names == CardNames(cards)
             exact == ExactMatch(card_names, card_name)
             fuzzy == ExtractOne(card_names, wr, threshold)
         IN  IF exact # 0
             THEN [card |-> CardLookup(cards, card_names[exact]), via |-> "exact"]
             ELSE IF fuzzy # 0
             THEN [card |-> CardLookup(cards, card_names[fuzzy]), via |-> "fuzzy"]
             ELSE None

get_credit_card_by_name(cards, card_name, wr) ==
    ResolveWith(cards, card_name, wr, FUZZY_MATCH_THRESHOLD)

-----------------------------------------------------------------------------
(* Sorting and slicing of lists.                                           *)

\* seq[:n] for n >= 0.
Take(seq, n) == SubSeq(seq, 1, IF n < Len(seq) THEN n ELSE Len(seq))

\* The same positions in descending order.
PositionsOfReversed(keys, v) ==
    LET at == {i \in DOMAIN keys : keys[i] = v}
    IN  [k \in 1..Cardinality(at) |->
            CHOOSE i \in at : Cardinality({j \in at : j > i}) = k - 1]

\* The positions of `keys` that hold key v, in ascending order.
PositionsOf(keys, v) ==
    LET at == {i \in DOMAIN keys : keys[i] = v}
    IN  [k \in 1..Cardinality(at) |->
            CHOOSE i \in at : Cardinality({j \in at : j < i}) = k - 1]

\* The order a stable descending sort gives the positions of `keys`: the
\* key values of `left` from the highest down, and under one key value the
\* positions in the order in which they came.
RECURSIVE SortOrder(_, _)
SortOrder(keys, left) ==
    IF left = {} THEN <<>>
    ELSE LET v == CHOOSE x \in left : \A y \in left : x >= y
         IN  PositionsOf(keys, v) \o SortOrder(keys, left \ {v})

\* list.sort(key=..., reverse=True), keys[i] being the key of seq[i]: stable,
\* descending.
SortDesc(seq, keys) ==
    LET order == SortOrder(keys, {keys[i] : i \in DOMAIN keys})
    IN  [k \in DOMAIN order |-> seq[order[k]]]

\* Concatenation of a sequence of sequences.
RECURSIVE Flatten(_)
Flatten(ss) == IF ss = <<>> THEN <<>> ELSE Head(ss) \o Flatten(Tail(ss))

-----------------------------------------------------------------------------
(* datetime: strptime(s, "%m/%d/%y"), in days; the clock counts hours.     *)

HoursPerDay == 24

Digits == {"0", "1", "2", "3", "4", "5", "6", "7", "8", "9"}

DigitVal(c) ==
    CASE c = "0" -> 0 [] c = "1" -> 1 [] c = "2" -> 2 [] c = "3" -> 3
      [] c = "4" -> 4 [] c = "5" -> 5 [] c = "6" -> 6 [] c = "7" -> 7
      [] c = "8" -> 8 [] c = "9" -> 9

AllDigits(t) == \A i \in DOMAIN t : t[i] \in Digits

\* int() of a text of one or two digits.
Num(t) == IF Len(t) = 1 THEN DigitVal(t[1]) ELSE 10 * DigitVal(t[1]) + DigitVal(t[2])

\* %m matches 1[0-2]|0[1-9]|[1-9].
MonthText(t) == Len(t) \in {1, 2} /\ AllDigits(t) /\ Num(t) \in 1..12

\* %d matches 3[0-1]|[1-2]\d|0[1-9]|[1-9]| [1-9].
DayText(t) ==
    \/ Len(t) \in {1, 2} /\ AllDigits(t) /\ Num(t) \in 1..31
    \/ Len(t) = 2 /\ t[1] = " " /\ t[2] \in Digits \ {"0"}

DayNum(t) == IF t[1] = " " THEN DigitVal(t[2]) ELSE Num(t)

\* %y matches \d\d.
YearText(t) == Len(t) = 2 /\ AllDigits(t)

\* %y: 69..99 are 1969..1999, 00..68 are 2000..2068.
FullYear(yy) == IF yy <= 68 THEN 2000 + yy ELSE 1900 + yy

IsLeap(y) == (y % 4 = 0 /\ y % 100 # 0) \/ y % 400 = 0

DaysInMonth(y, m) ==
    IF m = 2 THEN (IF IsLeap(y) THEN 29 ELSE 28)
    ELSE IF m \in {4, 6, 9, 11} THEN 30 ELSE 31

RECURSIVE DaysBeforeMonth(_, _)
DaysBeforeMonth(y, m) ==
    IF m = 1 THEN 0 ELSE DaysBeforeMonth(y, m - 1) + DaysInMonth(y, m - 1)

\* date.toordinal(): days since 0001-01-01, that day being 1.
Ordinal(y, m, d) ==
    365 * (y - 1) + ((y - 1) \div 4) - ((y - 1) \div 100) + ((y - 1) \div 400)
        + DaysBeforeMonth(y, m) + d

ValueError == -1

\* datetime.strptime(s, "%m/%d/%y") as the ordinal of the day (the time is
\* midnight), or ValueError.
Strptime(s) ==
    LET slashes == {i \in DOMAIN s : s[i] = "/"}
    IN  IF Cardinality(slashes) # 2 THEN ValueError
        ELSE LET i == Min(slashes)
                 j == Max(slashes)
                 mm == SubSeq(s, 1, i - 1)
                 dd == SubSeq(s, i + 1, j - 1)
                 yy == SubSeq(s, j + 1, Len(s))
             IN  IF ~(MonthText(mm) /\ DayText(dd) /\ YearText(yy)) THEN ValueError
                 ELSE IF DayNum(dd) > DaysInMonth(FullYear(Num(yy)), Num(mm))
                      THEN ValueError
                      ELSE Ordinal(FullYear(Num(yy)), Num(mm), DayNum(dd))

-----------------------------------------------------------------------------
(* tools.credit_card_search                                                *)

MaxQueryLen == 500

MaxResultsCap == 50

Error(msg) == [error |-> msg]

\* json of d.get(key): the string, or null.
JsonGet(d, key) == IF key \in DOMAIN d THEN [str |-> d[key]] ELSE None

\* The filter letting through the cards it cannot date.
RecentlyUpdatedOrUndated(card, cutoff_date) ==
    \/ ~Truthy(card, "last_updated")
    \/ Strptime(card.last_updated) = ValueError
    \/ Strptime(card.last_updated) * HoursPerDay >= cutoff_date

\* The recently_updated filter on one card: last_updated truthy, parsable,
\* and card_date >= cutoff_date (now and cutoff in hours).
RecentlyUpdated(card, cutoff_date) ==
    /\ Truthy(card, "last_updated")
    /\ Strptime(card.last_updated) # ValueError
    /\ Strptime(card.last_updated) * HoursPerDay >= cutoff_date

Hit(points, reason) == [points |-> points, reason |-> reason]

HitIf(cond, points, reason) == IF cond THEN <<Hit(points, reason)>> ELSE <<>>

\* The hits of one list of dicts on the key `key`, 2 points each.
ListHits(list, key, label, query_lower) ==
    Flatten([k \in DOMAIN list |->
        HitIf(Contains(query_lower, Lower(Get(list[k], key, <<>>))), 2,
              [label |-> label, of |-> JsonGet(list[k], key)])])

\* All hits of a card in the order the code accumulates them.
CardHits(card, query_lower) ==
    LET benefits == Get(card, "benefits", <<>>)
    IN  HitIf(Contains(query_lower, Lower(Get(card, "card_name", <<>>))), 10,
              [label |-> "Card name match"])
        \o HitIf(Contains(query_lower, Lower(Get(card, "issuer", <<>>))), 5,
              [label |-> "Issuer match"])
        \o HitIf(Contains(query_lower, Lower(Get(card, "rewards_currency", <<>>))), 3,
              [label |-> "Rewards currency match"])
        \o ListHits(Get(card, "reward_multipliers", <<>>), "category", "Category", query_lower)
        \o ListHits(Get(benefits, "credits", <<>>), "type", "Credit", query_lower)
        \o ListHits(Get(benefits, "lounge", <<>>), "type", "Lounge", query_lower)
        \o HitIf(Contains(query_lower, Lower(Get(card, "card_type", <<>>))), 3,
              [label |-> "Card type match"])

\* score: the sum of the points of the hits.
RECURSIVE SumPoints(_)
SumPoints(hits) ==
    IF hits = <<>> THEN 0 ELSE Head(hits).points + SumPoints(Tail(hits))

CardScore(card, query_lower) == SumPoints(CardHits(card, query_lower))

\* The entry with every reason kept.
MatchAllReasons(card, query_lower) ==
    LET hits == CardHits(card, query_lower)
    IN  [card_name |-> JsonGet(card, "card_name"),
         issuer |-> JsonGet(card, "issuer"),
         rewards_currency |-> JsonGet(card, "rewards_currency"),
         annual_fee |-> Get(card, "annual_fee", None),
         card_type |-> JsonGet(card, "card_type"),
         score |-> SumPoints(hits),
         match_reasons |-> [k \in DOMAIN hits |-> hits[k].reason]]

\* The entry appended to matches for a card.
Match(card, query_lower) ==
    LET hits == CardHits(card, query_lower)
    IN  [card_name |-> JsonGet(card, "card_name"),
         issuer |-> JsonGet(card, "issuer"),
         rewards_currency |-> JsonGet(card, "rewards_currency"),
         annual_fee |-> Get(card, "annual_fee", None),
         card_type |-> JsonGet(card, "card_type"),
         score |-> SumPoints(hits),
         match_reasons |-> [k \in 1..(IF Len(hits) < 3 THEN Len(hits) ELSE 3) |-> hits[k].reason]]

\* matches.sort(key=lambda x: x["score"], reverse=True)
SortByScore(matches) ==
    SortDesc(matches, [k \in DOMAIN matches |-> matches[k].score])

\* matches after the loop over the cards: the cards with score > 0, in order.
Matches(cards, query_lower) ==
    LET kept == SelectSeq(cards, LAMBDA c : CardScore(c, query_lower) > 0)
    IN  [k \in DOMAIN kept |-> Match(kept[k], query_lower)]

\* max_results used as given.
NoClampMaxResults(max_results) == max_results

\* max_results > 50 is capped at 50.
ClampMaxResults(max_results) ==
    IF max_results > MaxResultsCap THEN MaxResultsCap ELSE max_results

\* The cards left by the recently_updated filter (an int >= 1 here).
FilterRecent(cards, t, recently_updated) ==
    SelectSeq(cards, LAMBDA c :
        RecentlyUpdated(c, t - recently_updated * HoursPerDay))

\* The keys of a card of the catalog whose value is JSON null are listed in
\* its null_fields and are not fields of the record: card.get(key, default)
\* gives None for them, not the default.
NullFields(card) == Get(card, "null_fields", {})

\* The reads of the scoring loop that fail on None, in the order of the loop.
SearchReads ==
    <<"card_name", "issuer", "rewards_currency", "reward_multipliers", "benefits",
      "card_type">>

\* The scoring loop raises on this card: card.get(key, "").lower() on None,
\* iteration over None, or benefits.get on None.
SearchRaises(card) == \E n \in DOMAIN SearchReads : SearchReads[n] \in NullFields(card)

\* str(e) of the exception the loop raises on the card.
SearchException(card) ==
    LET key == SearchReads[Min({n \in DOMAIN SearchReads : SearchReads[n] \in NullFields(card)})]
    IN  IF key = "reward_multipliers" THEN "'NoneType' object is not iterable"
        ELSE IF key = "benefits" THEN "'NoneType' object has no attribute 'get'"
        ELSE "'NoneType' object has no attribute 'lower'"

\* credit_card_search(query, max_results, recently_updated) at time t;
\* recently_updated is None or [int |-> n].  An exception of the loop is
\* caught by the handler of the function and returned as an error.
credit_card_search(cards, t, query, max_results, recently_updated) ==
    IF query = <<>> THEN Error("Invalid query: must be a non-empty string")
    ELSE IF Len(query) > MaxQueryLen THEN Error("Query too long (max 500 characters)")
    ELSE IF max_results < 1 THEN Error("max_results must be a positive integer")
    ELSE IF recently_updated # None /\ recently_updated.int < 1
    THEN Error("recently_updated must be a positive integer")
    ELSE LET filtered == IF recently_updated = None THEN cards
                         ELSE FilterRecent(cards, t, recently_updated.int)
             matches == SortByScore(Matches(filtered, Lower(query)))
             limited == Take(matches, ClampMaxResults(max_results))
         IN  IF \E k \in DOMAIN filtered : SearchRaises(filtered[k])
             THEN Error(SearchException(
                      filtered[Min({k \in DOMAIN filtered : SearchRaises(filtered[k])})]))
             ELSE [search_results |-> limited,
                   total_results |-> Len(limited),
                   query |-> query]

-----------------------------------------------------------------------------
(* tools.lookup_transfer_partners and tools.get_transfer_bonuses           *)
(*                                                                         *)
(* transfer_partners.json is a sequence of [key, partners] in file order,  *)
(* the order in which dict.items() yields them.  Decimal numbers (ratios,  *)
(* bonus multipliers, cents per point) are counted in hundredths.  A Bonus *)
(* is [num |-> n], [str |-> s] or [null |-> TRUE].  last_updated_utc, the  *)
(* time of the call, is left out of the results.                           *)

MaxNameLen == 200

\* 1.0, the default of valuations.get(key, 1.0) and partner.get("Ratio", 1.0).
One == 100

\* Truthiness of a Bonus or bonus_expiration value.
TruthyValue(v) ==
    \/ "num" \in DOMAIN v /\ v.num # 0
    \/ "str" \in DOMAIN v /\ v.str # <<>>

\* The keys bonus and bonus_expiration of an entry: only when truthy.
BonusInfo(partner) ==
    LET bonus == Get(partner, "Bonus", [str |-> <<>>])
        bonus_exp == Get(partner, "bonus_expiration", [null |-> TRUE])
    IN  IF ~TruthyValue(bonus) THEN <<>>
        ELSE IF ~TruthyValue(bonus_exp) THEN [bonus |-> bonus]
        ELSE [bonus |-> bonus, bonus_expiration |-> bonus_exp]

\* f"{ratio}:1, {valuation} cents per point"
Summary(ratio, valuation) ==
    [format |-> "{ratio}:1, {valuation} cents per point",
     ratio |-> ratio, valuation |-> valuation]

\* partner_info of direction 'from'.
PartnerInfo(partner, vals) ==
    LET loyalty_program == Get(partner, "Loyalty Program", <<>>)
        ratio == Get(partner, "Ratio", One)
        valuation == Get(vals, NormalizeKey(loyalty_program), One)
    IN  [loyalty_program |-> loyalty_program,
         best |-> Get(partner, "Best", FALSE),
         ratio |-> ratio,
         notes |-> Get(partner, "Notes", <<>>),
         valuation |-> valuation,
         summary |-> Summary(ratio, valuation)] @@ BonusInfo(partner)

\* source_info of direction 'to'.
SourceInfo(prog_key, partner, vals) ==
    LET ratio == Get(partner, "Ratio", One)
        source_val == Get(vals, NormalizeKey(prog_key), One)
    IN  [loyalty_program |-> prog_key,
         ratio |-> ratio,
         best |-> Get(partner, "Best", FALSE),
         notes |-> Get(partner, "Notes", <<>>),
         summary |-> Summary(ratio, source_val)] @@ BonusInfo(partner)

\* The source programs matching in direction 'from', taking the last one.
LastSourceProgram(transfer_data, program_name_lower) ==
    LET hits == {k \in DOMAIN transfer_data :
                    Contains(program_name_lower, Lower(transfer_data[k].key))}
    IN  IF hits = {} THEN 0 ELSE Max(hits)

\* The first prog_key, in file order, with program_name_lower in
\* prog_key.lower(); 0 when there is none.
FirstSourceProgram(transfer_data, program_name_lower) ==
    LET hits == {k \in DOMAIN transfer_data :
                    Contains(program_name_lower, Lower(transfer_data[k].key))}
    IN  IF hits = {} THEN 0 ELSE Min(hits)

\* result_partners.sort(key=lambda x: x["valuation"], reverse=True)
SortByValuation(result_partners) ==
    SortDesc(result_partners,
             [k \in DOMAIN result_partners |-> result_partners[k].valuation])

\* source_programs of direction 'to' ranked by the source's valuation.
SourceProgramsRanked(transfer_data, vals, program_name_lower) ==
    LET all == Flatten([k \in DOMAIN transfer_data |->
                   LET hits == SelectSeq(transfer_data[k].partners, LAMBDA partner :
                                   Contains(program_name_lower,
                                            Lower(Get(partner, "Loyalty Program", <<>>))))
                   IN  [n \in DOMAIN hits |->
                           SourceInfo(transfer_data[k].key, hits[n], vals)]])
    IN  SortDesc(all, [k \in DOMAIN all |-> all[k].summary.valuation])

\* source_programs of direction 'to': over all programs in file order, the
\* partners with program_name_lower in their Loyalty Program, in list order.
SourcePrograms(transfer_data, vals, program_name_lower) ==
    Flatten([k \in DOMAIN transfer_data |->
        LET hits == SelectSeq(transfer_data[k].partners, LAMBDA partner :
                        Contains(program_name_lower,
                                 Lower(Get(partner, "Loyalty Program", <<>>))))
        IN  [n \in DOMAIN hits |-> SourceInfo(transfer_data[k].key, hits[n], vals)]])

\* The "no results" value.
NoResults(program_name) ==
    [type |-> "none",
     results |-> <<>>,
     message |-> [format |-> "No transfer partners found for '{program_name}'",
                  program_name |-> program_name]]

\* Direction 'from' once the source program is found at position k.
FromProgram(transfer_data, vals, k) ==
    [type |-> "from_program",
     source_program |-> transfer_data[k].key,
     dest_programs |-> SortByValuation(
         [n \in DOMAIN transfer_data[k].partners |->
             PartnerInfo(transfer_data[k].partners[n], vals)])]

\* Direction 'from' treating a source program without partners as no result.
FromProgramOrNoneIfEmpty(transfer_data, vals, program_name) ==
    LET k == FirstSourceProgram(transfer_data, Lower(program_name))
    IN  IF k # 0 /\ transfer_data[k].partners # <<>>
        THEN FromProgram(transfer_data, vals, k)
        ELSE NoResults(program_name)

LookupFrom(transfer_data, vals, program_name) ==
    LET k == FirstSourceProgram(transfer_data, Lower(program_name))
    IN  IF k # 0 THEN FromProgram(transfer_data, vals, k)
        ELSE NoResults(program_name)

LookupTo(transfer_data, vals, program_name) ==
    LET source_programs == SourcePrograms(transfer_data, vals, Lower(program_name))
    IN  IF source_programs # <<>>
        THEN [type |-> "to_program",
              dest_program |-> program_name,
              valuation |-> Get(vals, NormalizeKey(program_name), One),
              source_programs |-> source_programs]
        ELSE NoResults(program_name)

lookup_transfer_partners(transfer_data, vals, program_name, direction) ==
    IF program_name = <<>>
    THEN Error("Invalid program name: must be a non-empty string")
    ELSE IF Len(program_name) > MaxNameLen
    THEN Error("Program name too long (max 200 characters)")
    ELSE IF direction \notin {"from", "to"}
    THEN Error("Invalid direction: must be 'from' or 'to'")
    ELSE IF direction = "from"
    THEN LookupFrom(transfer_data, vals, program_name)
    ELSE LookupTo(transfer_data, vals, program_name)

\* The bonus test with `bonus < 1.0` in the place of `bonus <= 1.0`.
IsBonusOrPar(partner) ==
    /\ "Bonus" \in DOMAIN partner
    /\ "num" \in DOMAIN partner.Bonus
    /\ ~(partner.Bonus.num < One)

\* The edges get_transfer_bonuses keeps: Bonus present and not None, not
\* "None" or "Varies", an int or float, and not <= 1.0.
IsBonus(partner) ==
    /\ "Bonus" \in DOMAIN partner
    /\ "null" \notin DOMAIN partner.Bonus
    /\ partner.Bonus # [str |-> <<"N", "o", "n", "e">>]
    /\ partner.Bonus # [str |-> <<"V", "a", "r", "i", "e", "s">>]
    /\ "num" \in DOMAIN partner.Bonus
    /\ ~(partner.Bonus.num <= One)

\* bonus_info of one edge.
BonusEntry(source_program, partner) ==
    LET bonus == partner.Bonus
        ratio == Get(partner, "Ratio", One)
        bonus_exp == Get(partner, "bonus_expiration", [null |-> TRUE])
    IN  [from_program |-> source_program,
         to_program |-> Get(partner, "Loyalty Program", <<>>),
         bonus_multiplier |-> bonus,
         bonus_percentage |-> [format |-> "{bonus_pct:.0f}%", bonus_pct |-> bonus.num - One],
         normal_ratio |-> [format |-> "{ratio}:1", ratio |-> ratio],
         effective_ratio |-> [format |-> "{ratio}:{bonus * ratio}", ratio |-> ratio,
                              product |-> (bonus.num * ratio) \div One],
         notes |-> Get(partner, "Notes", <<>>)]
        @@ (IF TruthyValue(bonus_exp) THEN [bonus_expiration |-> bonus_exp] ELSE <<>>)

\* bonuses.sort(key=lambda x: x["bonus_multiplier"], reverse=True)
SortByBonus(bonuses) ==
    SortDesc(bonuses, [k \in DOMAIN bonuses |-> bonuses[k].bonus_multiplier.num])

get_transfer_bonuses(transfer_data, from_program) ==
    IF Len(from_program) > MaxNameLen
    THEN Error("Program name too long (max 200 characters)")
    ELSE LET from_program_lower == Lower(from_program)
             bonuses == Flatten([k \in DOMAIN transfer_data |->
                 IF from_program_lower # <<>>
                    /\ ~Contains(from_program_lower, Lower(transfer_data[k].key))
                 THEN <<>>
                 ELSE LET kept == SelectSeq(transfer_data[k].partners, IsBonus)
                      IN  [n \in DOMAIN kept |->
                              BonusEntry(transfer_data[k].key, kept[n])]])
             sorted == SortByBonus(bonuses)
         IN  [bonuses |-> sorted, count |-> Len(sorted)]

-----------------------------------------------------------------------------
(* data_storage: valuations.json, user.json and the merged valuation table; *)
(* tools.get_valuations.                                                    *)
(*                                                                          *)
(* A JSON object whose keys are data (program keys) is kept as its items    *)
(* in file order, [key |-> k, ...]; json.load keeps one item per key.  A    *)
(* val_data of valuations.json is [num |-> n] for a bare number, [obj |-> r] *)
(* for an object r holding the keys it has, [str |-> s] for anything else.  *)

\* dict(items) for items [key, value]: the value of a key is its last item's.
DictOf(items) ==
    [k \in {items[i].key : i \in DOMAIN items} |->
        items[Max({i \in DOMAIN items : items[i].key = k})].value]

\* list(d) of a dict built by assigning the items in order: each key once, at
\* the place of its first assignment.
KeysOf(items) ==
    LET first == SelectSeq([i \in DOMAIN items |-> i],
                     LAMBDA i : \A j \in 1..(i - 1) : items[j].key # items[i].key)
    IN  [n \in DOMAIN first |-> items[first[n]].key]

\* raw_valuations = data.get("valuations", {})
RawValuations(data) == IF data = None THEN <<>> ELSE Get(data, "valuations", <<>>)

\* The value get_default_valuations stores for a val_data it keeps:
\* val_data.get("value", 0) of an object, the number itself.
DefaultValue(val_data) ==
    IF "obj" \in DOMAIN val_data THEN Get(val_data.obj, "value", 0) ELSE val_data.num

\* get_default_valuations(): the items of the dict it returns; a val_data that
\* is neither an object nor a number is left out.
get_default_valuations(data) ==
    LET kept == SelectSeq(RawValuations(data),
                    LAMBDA it : "obj" \in DOMAIN it.val_data \/ "num" \in DOMAIN it.val_data)
    IN  [n \in DOMAIN kept |-> [key |-> kept[n].key, value |-> DefaultValue(kept[n].val_data)]]

\* data_storage.get_user_data(): the file's object, or the empty structure
\* (last_updated, the time of the call, is left out).
get_user_data(user) ==
    IF user = None
    THEN [wallet |-> <<>>, custom_valuations |-> <<>>, credits |-> <<>>]
    ELSE user

\* The merge with the defaults winning.
MergedItemsDefaultsWin(data, user) ==
    Get(get_user_data(user), "custom_valuations", <<>>) \o get_default_valuations(data)

\* merged = default_vals.copy(); merged.update(custom_vals): as items.
MergedItems(data, user) ==
    get_default_valuations(data) \o Get(get_user_data(user), "custom_valuations", <<>>)

\* get_user_valuations(): the merged dict.
get_user_valuations(data, user) == DictOf(MergedItems(data, user))

\* normalize_key of get_valuations.
normalize_key(s) == NormalizeKey(s)

\* valuations_metadata.get("valuations", {}).get(key, {}).get("display_name")
\* when val_data is a dict and the name is truthy; <<>> otherwise.
DisplayName(data, key) ==
    LET raw == RawValuations(data)
        at == {i \in DOMAIN raw : raw[i].key = key}
    IN  IF at = {} THEN <<>>
        ELSE LET val_data == raw[Max(at)].val_data
             IN  IF "obj" \in DOMAIN val_data
                 THEN Get(val_data.obj, "display_name", <<>>) ELSE <<>>

\* The assignments to normalized_lookup in order, as items [key |-> normalized
\* name, value |-> actual key]: for each merged key its own normalized form,
\* then that of its display name.
NormalizedLookupItems(data, user) ==
    LET keys == KeysOf(MergedItems(data, user))
    IN  Flatten([n \in DOMAIN keys |->
            <<[key |-> normalize_key(keys[n]), value |-> keys[n]]>>
            \o (IF DisplayName(data, keys[n]) # <<>>
                THEN <<[key |-> normalize_key(DisplayName(data, keys[n])), value |-> keys[n]]>>
                ELSE <<>>)])

\* The lookup that keeps the first key registered under a normalized name.
NormalizedLookupFirstWins(data, user) ==
    LET items == NormalizedLookupItems(data, user)
    IN  [k \in {items[i].key : i \in DOMAIN items} |->
            items[Min({i \in DOMAIN items : items[i].key = k})].value]

NormalizedLookup(data, user) == DictOf(NormalizedLookupItems(data, user))

\* filtered_valuations: the merged values of the keys the requested programs
\* are looked up to.
FilteredValuations(data, user, programs) ==
    LET valuations_ == get_user_valuations(data, user)
        normalized_lookup == NormalizedLookup(data, user)
        found == {normalized_lookup[normalize_key(programs[n])] :
                     n \in {m \in DOMAIN programs :
                               normalize_key(programs[m]) \in DOMAIN normalized_lookup}}
    IN  [k \in found |-> valuations_[k]]

\* tools.get_valuations(programs); programs is None or [list |-> a list of
\* strings].  last_updated_utc is left out.
get_valuations(data, user, programs) ==
    [unit |-> "cents_per_point",
     valuations |->
        IF programs = None \/ programs.list = <<>>
        THEN get_user_valuations(data, user)
        ELSE FilteredValuations(data, user, programs.list)]

-----------------------------------------------------------------------------
(* tools.benefits_search                                                    *)
(*                                                                          *)
(* An entry of a status list is a JSON object kept as its items in file     *)
(* order, [k |-> field name, v |-> text], so that str(stat) is computed.    *)

\* The words of str.split(): the maximal runs without whitespace, in order.
Words(s) ==
    LET starts == {i \in DOMAIN s : ~IsSpace(s[i]) /\ (i = 1 \/ IsSpace(s[i - 1]))}
        end(i) == Min({j \in i..Len(s) : j = Len(s) \/ IsSpace(s[j + 1])})
    IN  [k \in 1..Cardinality(starts) |->
            LET i == CHOOSE x \in starts : Cardinality({y \in starts : y < x}) = k - 1
            IN  SubSeq(s, i, end(i))]

sHotel == <<"h", "o", "t", "e", "l">>
sAirline == <<"a", "i", "r", "l", "i", "n", "e">>
sRental == <<"r", "e", "n", "t", "a", "l">>
sCar == <<"c", "a", "r">>
sElite == <<"e", "l", "i", "t", "e">>
sStatus == <<"s", "t", "a", "t", "u", "s">>

\* category_keywords
category_keywords ==
    (sHotel :> "hotel_elite_status") @@ (sAirline :> "airline_elite_status")
        @@ (sRental :> "rental_car_elite_status") @@ (sCar :> "rental_car_elite_status")

StatusCategories ==
    <<"hotel_elite_status", "airline_elite_status", "rental_car_elite_status",
      "other_elite_status">>

ProtectionCategories ==
    <<"purchase_protections", "travel_protections", "insurance_protections">>

\* The characters of a field name of a status entry.
FieldChars(k) ==
    CASE k = "program" -> <<"p", "r", "o", "g", "r", "a", "m">>
      [] k = "tier" -> <<"t", "i", "e", "r">>
      [] k = "description" -> <<"d", "e", "s", "c", "r", "i", "p", "t", "i", "o", "n">>

\* stat.get(key, '')
StatGet(stat, key) ==
    LET at == {i \in DOMAIN stat : stat[i].k = key}
    IN  IF at = {} THEN <<>> ELSE stat[Min(at)].v

\* f"{stat.get('program', '')} {stat.get('tier', '')} {stat.get('description', '')}".lower()
StatText(stat) ==
    Lower(StatGet(stat, "program") \o <<" ">> \o StatGet(stat, "tier") \o <<" ">>
              \o StatGet(stat, "description"))

\* str(stat) of a dict of strings: {'program': 'X', 'tier': 'Y'}
Str(stat) ==
    <<"{">>
        \o Flatten([i \in DOMAIN stat |->
              (IF i = 1 THEN <<>> ELSE <<",", " ">>)
                  \o <<"'">> \o FieldChars(stat[i].k) \o <<"'", ":", " ", "'">>
                  \o stat[i].v \o <<"'">>])
        \o <<"}">>

\* The loops over credits, lounge, other and protections.
EarlierFieldsMatch(benefits, query_lower) ==
    LET credits == Get(benefits, "credits", <<>>)
        lounge == Get(benefits, "lounge", <<>>)
        other == Get(benefits, "other", <<>>)
        protections == Get(benefits, "protections", <<>>)
    IN  \/ \E i \in DOMAIN credits :
              Contains(query_lower, Lower(Get(credits[i], "type", <<>>)))
        \/ \E i \in DOMAIN lounge :
              Contains(query_lower, Lower(Get(lounge[i], "type", <<>>)))
        \/ \E i \in DOMAIN other : Contains(query_lower, Lower(other[i]))
        \/ \E c \in DOMAIN ProtectionCategories :
              LET prots == Get(protections, ProtectionCategories[c], <<>>)
              IN  \E i \in DOMAIN prots :
                      \/ Contains(query_lower, Lower(Get(prots[i], "type", <<>>)))
                      \/ Contains(query_lower, Lower(Get(prots[i], "description", <<>>)))

\* target_categories, as a set.
TargetCategories(query_words) ==
    {category_keywords[query_words[i]] :
        i \in {j \in DOMAIN query_words : query_words[j] \in DOMAIN category_keywords}}

\* remaining_words, as a set.
RemainingWords(query_words) ==
    {query_words[i] :
        i \in {j \in DOMAIN query_words :
                  /\ query_words[j] \notin DOMAIN category_keywords
                  /\ query_words[j] \notin {sElite, sStatus}}}

\* A category test that asks for the query's other words in the entries.
CategoryKeywordMatch(status, query_words) ==
    \E category \in TargetCategories(query_words) :
        \E i \in DOMAIN Get(status, category, <<>>) :
            \E word \in RemainingWords(query_words) \cup {sElite, sStatus} :
                Contains(word, StatText(status[category][i]))

\* The query names status categories: the card has entries in one of them.
CategoryMatch(status, query_words) ==
    \E category \in TargetCategories(query_words) : Get(status, category, <<>>) # <<>>

\* The generic test without the keyword match: any card with status entries.
AnyStatusIgnoringWords(status, query_words) ==
    \E c \in DOMAIN StatusCategories : Get(status, StatusCategories[c], <<>>) # <<>>

\* The query holds "status" or "elite" but no category: a card with status
\* entries, one of them holding a remaining word if there are any.
AnyStatusMatch(status, query_words) ==
    \E c \in DOMAIN StatusCategories :
        LET stats == Get(status, StatusCategories[c], <<>>)
        IN  /\ stats # <<>>
            /\ \/ RemainingWords(query_words) = {}
               \/ \E i \in DOMAIN stats : \E word \in RemainingWords(query_words) :
                     Contains(word, StatText(stats[i]))

\* The fallback: the query is in str(stat).lower() of some status entry.
FallbackMatch(status, query_lower) ==
    \E c \in DOMAIN StatusCategories :
        LET stats == Get(status, StatusCategories[c], <<>>)
        IN  \E i \in DOMAIN stats : Contains(query_lower, Lower(Str(stats[i])))

\* The elite-status part of the loop body.
StatusMatch(status, query_lower) ==
    LET query_words == Words(query_lower)
    IN  IF TargetCategories(query_words) # {}
        THEN CategoryMatch(status, query_words)
        ELSE IF \E i \in DOMAIN query_words : query_words[i] \in {sStatus, sElite}
        THEN AnyStatusMatch(status, query_words)
        ELSE FallbackMatch(status, query_lower)

\* matched, at the end of the loop body.
BenefitMatched(card, query_lower) ==
    LET benefits == Get(card, "benefits", <<>>)
    IN  \/ EarlierFieldsMatch(benefits, query_lower)
        \/ StatusMatch(Get(benefits, "status", <<>>), query_lower)

\* The entry appended to matches.
BenefitEntry(card) ==
    [card_name |-> JsonGet(card, "card_name"),
     issuer |-> JsonGet(card, "issuer"),
     rewards_currency |-> JsonGet(card, "rewards_currency"),
     annual_fee |-> Get(card, "annual_fee", None),
     foreign_transaction_fee |-> Get(card, "foreign_transaction_fee", None),
     fm_mini_review |-> JsonGet(card, "fm_mini_review"),
     benefits |-> Get(card, "benefits", <<>>),
     card_type |-> JsonGet(card, "card_type"),
     last_updated_utc |-> JsonGet(card, "last_updated_utc")]

\* benefits_search refusing a query of exactly the longest length.
BenefitsSearchBelowLimit(cards, query) ==
    IF query = <<>> THEN Error("Invalid query: must be a non-empty string")
    ELSE IF Len(query) >= MaxQueryLen THEN Error("Query too long (max 500 characters)")
    ELSE LET kept == SelectSeq(cards, LAMBDA card : BenefitMatched(card, Lower(query)))
             matches == [k \in DOMAIN kept |-> BenefitEntry(kept[k])]
         IN  [matches |-> matches, query |-> query, total_matches |-> Len(matches)]

\* benefits_search(query); last_updated_utc of the result is left out.
benefits_search(cards, query) ==
    IF query = <<>> THEN Error("Invalid query: must be a non-empty string")
    ELSE IF Len(query) > MaxQueryLen THEN Error("Query too long (max 500 characters)")
    ELSE LET kept == SelectSeq(cards, LAMBDA card : BenefitMatched(card, Lower(query)))
             matches == [k \in DOMAIN kept |-> BenefitEntry(kept[k])]
         IN  [matches |-> matches, query |-> query, total_matches |-> Len(matches)]

-----------------------------------------------------------------------------
(* tools.get_credit_card_info and tools.get_top_card_offers                 *)

\* The characters "\0", "\n", "\r" and the texts "../", "..\" in card_name;
\* "NUL" stands for the character "\0".
HasInvalidCharacters(card_name) ==
    \/ Contains(<<".", ".", "/">>, card_name)
    \/ Contains(<<".", ".", "\\">>, card_name)
    \/ \E i \in DOMAIN card_name : card_name[i] \in {"NUL", "\n", "\r"}

\* A not-found value that does not say which name was looked for.
CardNotFoundUnnamed(card_name) ==
    [error |-> [format |-> "Card not found", card_name |-> <<>>],
     suggestion |-> "Please check the card name and try again"]

\* The value returned when the name does not resolve.
CardNotFound(card_name) ==
    [error |-> [format |-> "Card not found: {card_name}", card_name |-> card_name],
     suggestion |-> "Please check the card name and try again"]

\* get_credit_card_info(card_name); wr[name] is fuzz.WRatio(card_name, name).
get_credit_card_info(cards, card_name, wr) ==
    IF card_name = <<>> THEN Error("Invalid card name: must be a non-empty string")
    ELSE IF Len(card_name) > MaxNameLen THEN Error("Card name too long (max 200 characters)")
    ELSE IF HasInvalidCharacters(card_name) THEN Error("Invalid characters in card name")
    ELSE LET card == get_credit_card_by_name(cards, card_name, wr)
         IN  IF card = None THEN CardNotFound(card_name) ELSE cards[card.card]

\* int() of a text of digits.
RECURSIVE DigitsValue(_)
DigitsValue(t) ==
    IF t = <<>> THEN 0 ELSE 10 * DigitsValue(SubSeq(t, 1, Len(t) - 1)) + DigitVal(t[Len(t)])

\* float(fyve) succeeds: a number, or a text that is digits inside whitespace
\* (the texts of the model are digits or letters).
IsFloat(fyve) ==
    \/ "num" \in DOMAIN fyve
    \/ "str" \in DOMAIN fyve /\ Strip(fyve.str) # <<>> /\ AllDigits(Strip(fyve.str))

\* float(fyve)
Float(fyve) == IF "num" \in DOMAIN fyve THEN fyve.num ELSE DigitsValue(Strip(fyve.str))

sBusiness == <<"b", "u", "s", "i", "n", "e", "s", "s">>
sPersonal == <<"p", "e", "r", "s", "o", "n", "a", "l">>
sAll == <<"a", "l", "l">>

\* The cards the loop of get_top_card_offers keeps.
IsOffer(card, card_type) ==
    /\ card_type = sBusiness => Lower(Get(card, "card_type", <<>>)) = sBusiness
    /\ card_type = sPersonal => Lower(Get(card, "card_type", <<>>)) = sPersonal
    /\ "first_year_value_estimate" \in DOMAIN card
    /\ IsFloat(card.first_year_value_estimate)

\* The entry appended to offers.
Offer(card) ==
    [card_name |-> JsonGet(card, "card_name"),
     issuer |-> JsonGet(card, "issuer"),
     first_year_value_estimate |-> Float(card.first_year_value_estimate),
     sign_up_bonus |-> JsonGet(card, "sign_up_bonus"),
     annual_fee |-> Get(card, "annual_fee", None),
     application_link |-> JsonGet(card, "application_link"),
     rewards_currency_type |-> JsonGet(card, "rewards_currency"),
     benefits |-> Get(card, "benefits", None),
     fm_mini_review |-> JsonGet(card, "fm_mini_review")]

\* get_top_card_offers(n, card_type)
get_top_card_offers(cards, n, card_type) ==
    IF n < 1 THEN Error("n must be a positive integer")
    ELSE IF card_type \notin {sBusiness, sPersonal, sAll}
    THEN Error("card_type must be 'business', 'personal', or 'all'")
    ELSE IF \E k \in DOMAIN cards : "card_type" \in NullFields(cards[k])
    THEN Error("'NoneType' object has no attribute 'lower'")
    ELSE LET kept == SelectSeq(cards, LAMBDA card : IsOffer(card, card_type))
             offers == [k \in DOMAIN kept |-> Offer(kept[k])]
             sorted == SortDesc(offers,
                           [k \in DOMAIN offers |-> offers[k].first_year_value_estimate])
         IN  [offers |-> Take(sorted, IF n > MaxResultsCap THEN MaxResultsCap ELSE n)]

-----------------------------------------------------------------------------
(* Strings of the model.                                                   *)

sEmpty == <<>>
sSpace == <<" ">>
sAb == <<"A", "b">>
sAB == <<"A", "B">>
sCd == <<"C", "d">>
s_ab == <<"a", "b">>
s_Ab_padded == <<" ", "A", "b", " ">>
sCD == <<"C", "D">>
sX == <<"X">>

-----------------------------------------------------------------------------
(* Name resolution: the catalog is drawn at start, then names are resolved. *)

\* All sequences over S of length 0..n.
SeqUpTo(S, n) == UNION {[1..k -> S] : k \in 0..n}

\* Catalog records as far as name resolution reads them: two names that differ
\* in case only, a third name, an empty name and a record without card_name.
ResolveCards ==
    {[card_name |-> sAb], [card_name |-> sAB], [card_name |-> sCd],
     [card_name |-> sEmpty], [issuer |-> sX]}

ResolveQueries == {s_ab, s_Ab_padded, sCD, sX, sEmpty, sSpace}

\* Scores fuzz.WRatio can give a non-empty pair of strings (0..100); the model
\* keeps one below the default threshold, the threshold itself and two above.
WRatioScores == {0, 84, 85, 90}

\* fuzz.WRatio(query, name) for every name: any score, except that WRatio
\* returns 0 as soon as one of its two strings is empty.
WRatioTables(query, names) ==
    IF query = <<>> THEN {[n \in names |-> 0]} ELSE [names -> WRatioScores]

NameSet(cards) == {cards[i].card_name : i \in NamedCards(cards)}

Idle == [fn |-> "none"]

InitResolve ==
    /\ credit_cards \in SeqUpTo(ResolveCards, MaxCards)
    /\ transfer_partners = <<>>
    /\ valuations = <<>>
    /\ valuations_json = None
    /\ user_data = None
    /\ now = 0
    /\ call = Idle
    /\ ret = None
    /\ loaded = <<>>
    /\ download_cache = <<>>

\* The dispatch layer has serialized the returned value: no call is in flight.
Reply ==
    /\ call # Idle
    /\ call' = Idle
    /\ ret' = None
    /\ UNCHANGED files

GetCreditCardByName ==
    \E card_name \in ResolveQueries :
      \E wr \in WRatioTables(card_name, NameSet(credit_cards)) :
        /\ call = Idle
        /\ call' = [fn |-> "get_credit_card_by_name", card_name |-> card_name, wr |-> wr]
        /\ ret' = get_credit_card_by_name(credit_cards, card_name, wr)
        /\ UNCHANGED files

NextResolve == GetCreditCardByName \/ Reply

SpecResolve == InitResolve /\ [][NextResolve]_vars

Resolved == call.fn = "get_credit_card_by_name"

\* Records whose card_name equals the query case-insensitively, the query trimmed.
SameName(cards, q) ==
    {i \in DOMAIN cards :
        /\ "card_name" \in DOMAIN cards[i]
        /\ cards[i].card_name # <<>>
        /\ Lower(cards[i].card_name) = Strip(Lower(q))}

\* C1: a query that equals, case-insensitively and trimmed, the (non-empty)
\* card_name of some catalog record is answered through the exact-match path
\* with a record of that name, whatever the fuzzy scores of the names are.
C1_ExactMatchWins ==
    (Resolved /\ SameName(credit_cards, call.card_name) # {}) =>
        /\ ret # None
        /\ ret.via = "exact"
        /\ ret.card \in SameName(credit_cards, call.card_name)

\* C1 witness: an exact hit on a query that differs from the name in case and
\* padding while another name scores above the threshold.
C1_Witness ==
    /\ Resolved
    /\ call.card_name = s_Ab_padded
    /\ ret # None
    /\ ret.via = "exact"
    /\ \E n \in DOMAIN call.wr :
          /\ Lower(n) # Lower(sAb)
          /\ call.wr[n] >= FUZZY_MATCH_THRESHOLD

MaxScore(wr) == Max({wr[n] : n \in DOMAIN wr})

ThresholdsTried == {0, 80, 84, 85, 86, 90, 91, 100}

\* C2: without an exact match the result is a record of a maximum-scoring
\* name if and only if that score is >= the threshold, else None; and a
\* higher threshold that still matches selects the same record.
C2_FuzzyThreshold ==
    (Resolved /\ SameName(credit_cards, call.card_name) = {}) =>
        /\ (ret # None) <=>
              (DOMAIN call.wr # {} /\ MaxScore(call.wr) >= FUZZY_MATCH_THRESHOLD)
        /\ ret # None =>
              /\ ret.via = "fuzzy"
              /\ call.wr[credit_cards[ret.card].card_name] = MaxScore(call.wr)
        /\ \A lo \in ThresholdsTried, hi \in ThresholdsTried :
              (lo <= hi /\ ResolveWith(credit_cards, call.card_name, call.wr, hi) # None) =>
                  ResolveWith(credit_cards, call.card_name, call.wr, lo)
                      = ResolveWith(credit_cards, call.card_name, call.wr, hi)

\* C2 witness: a fuzzy match whose best score is exactly the threshold, with a
\* lower-scoring name next to it.
C2_Witness ==
    /\ Resolved
    /\ ret # None
    /\ ret.via = "fuzzy"
    /\ MaxScore(call.wr) = FUZZY_MATCH_THRESHOLD
    /\ \E n \in DOMAIN call.wr : call.wr[n] < FUZZY_MATCH_THRESHOLD

\* The catalog with its records permuted by p.
Permuted(cards, p) == [i \in DOMAIN cards |-> cards[p[i]]]

\* C21: for a fixed query, permuting the catalog records never changes which
\* record the exact-match path returns, also when the catalog holds card
\* names that differ only in letter case.
C21_ExactOrderIndependent ==
    (Resolved /\ ret # None /\ ret.via = "exact") =>
        \A p \in Permutations(DOMAIN credit_cards) :
            LET cards == Permuted(credit_cards, p)
                r == get_credit_card_by_name(cards, call.card_name, call.wr)
            IN  /\ r # None
                /\ r.via = "exact"
                /\ cards[r.card] = credit_cards[ret.card]

\* The part of C21 the code does guarantee: whether the exact-match path
\* answers, and with a record of which lower-cased name, is the same for
\* every order of the catalog.
C21_ExactNameOrderIndependent ==
    (Resolved /\ ret # None /\ ret.via = "exact") =>
        \A p \in Permutations(DOMAIN credit_cards) :
            LET cards == Permuted(credit_cards, p)
                r == get_credit_card_by_name(cards, call.card_name, call.wr)
            IN  /\ r # None
                /\ r.via = "exact"
                /\ Lower(cards[r.card].card_name) = Lower(credit_cards[ret.card].card_name)

\* C22: the record returned, on the exact or the fuzzy path, has a non-empty
\* card_name and is the last record of the catalog with that card_name.
C22_LastDuplicateWins ==
    (Resolved /\ ret # None) =>
        /\ "card_name" \in DOMAIN credit_cards[ret.card]
        /\ credit_cards[ret.card].card_name # <<>>
        /\ \A i \in DOMAIN credit_cards :
              ("card_name" \in DOMAIN credit_cards[i]
                  /\ credit_cards[i].card_name = credit_cards[ret.card].card_name)
              => i <= ret.card

\* C22 witness: a fuzzy answer whose name an earlier record shares, in a
\* catalog that also holds a record without a name.
C22_Witness ==
    /\ Resolved
    /\ ret # None
    /\ ret.via = "fuzzy"
    /\ \E i \in DOMAIN credit_cards :
          /\ i < ret.card
          /\ "card_name" \in DOMAIN credit_cards[i]
          /\ credit_cards[i].card_name = credit_cards[ret.card].card_name
    /\ \E i \in DOMAIN credit_cards : ~Truthy(credit_cards[i], "card_name")

-----------------------------------------------------------------------------
(* Catalog search: catalog and clock are drawn at start, then searches run. *)

s_a == <<"a">>
sA == <<"A">>
s_b == <<"b">>
s_ba == <<"b", "a">>
s_cd == <<"c", "d">>

\* last_updated texts around the day of the call, 03/15/24.
dToday == <<"0", "3", "/", "1", "5", "/", "2", "4">>
dYesterday == <<"0", "3", "/", "1", "4", "/", "2", "4">>
d14DaysAgo == <<"3", "/", "1", "/", "2", "4">>
d30DaysAgo == <<"0", "2", "/", "1", "4", "/", "2", "4">>
d31DaysAgo == <<"0", "2", "/", "1", "3", "/", "2", "4">>
dTomorrow == <<"0", "3", "/", "1", "6", "/", "2", "4">>
dYear69 == <<"0", "3", "/", "1", "5", "/", "6", "9">>
dMonth13 == <<"1", "3", "/", "0", "1", "/", "2", "4">>
dFeb30 == <<"0", "2", "/", "3", "0", "/", "2", "4">>
dIso == <<"2", "0", "2", "4", "-", "0", "3", "-", "1", "5">>
dLongYear == <<"0", "3", "/", "1", "5", "/", "2", "0", "2", "4">>

Fee(n) == [num |-> n]

\* Catalog records; annual_fee tells them apart in the results.
SearchCards ==
    {[card_name |-> s_ab, issuer |-> s_cd, annual_fee |-> Fee(1), last_updated |-> dToday],
     [card_name |-> s_cd, issuer |-> sAb, rewards_currency |-> s_ba, annual_fee |-> Fee(2),
      last_updated |-> dYesterday],
     [card_name |-> sAB, issuer |-> sA, annual_fee |-> Fee(3), last_updated |-> d30DaysAgo],
     [card_name |-> s_cd, annual_fee |-> Fee(4), card_type |-> s_b,
      reward_multipliers |-> <<[category |-> s_a], [category |-> s_ba], [rate |-> Fee(2)]>>,
      benefits |-> [credits |-> <<[type |-> sA]>>, lounge |-> <<[type |-> s_a]>>],
      last_updated |-> d31DaysAgo],
     [card_name |-> s_a, annual_fee |-> Fee(5), last_updated |-> dTomorrow],
     [card_name |-> s_ab, annual_fee |-> Fee(6)],
     [card_name |-> s_ba, annual_fee |-> Fee(7), last_updated |-> sEmpty],
     [card_name |-> s_ab, annual_fee |-> Fee(8), last_updated |-> dMonth13],
     [card_name |-> s_b, annual_fee |-> Fee(9), last_updated |-> dIso],
     [card_name |-> s_ab, annual_fee |-> Fee(10), last_updated |-> dFeb30],
     [card_name |-> sAb, annual_fee |-> Fee(11), last_updated |-> d14DaysAgo],
     [card_name |-> s_ab, annual_fee |-> Fee(12), last_updated |-> dYear69],
     [card_name |-> s_ba, issuer |-> s_a, annual_fee |-> Fee(13), last_updated |-> dLongYear]}

\* A catalog with more matching cards than the cap on max_results, the best
\* match last.
LongCatalog ==
    [i \in 1..(MaxResultsCap + 2) |->
        IF i = MaxResultsCap + 2
        THEN [card_name |-> s_a, issuer |-> s_a, annual_fee |-> Fee(3)]
        ELSE [card_name |-> s_ab, annual_fee |-> Fee(6)]]

\* datetime.now(): midnight and noon of 03/15/24, in hours.
Clock == {Ordinal(2024, 3, 15) * HoursPerDay, Ordinal(2024, 3, 15) * HoursPerDay + 12}

InitSearch ==
    /\ credit_cards \in SeqUpTo(SearchCards, MaxSearchCards) \cup {LongCatalog}
    /\ transfer_partners = <<>>
    /\ valuations = <<>>
    /\ valuations_json = None
    /\ user_data = None
    /\ now \in Clock
    /\ call = Idle
    /\ ret = None
    /\ loaded = <<>>
    /\ download_cache = <<>>

SearchQueries == {sA}

MaxResultsTried == {0, 1, 2, MaxResultsCap + 1}

RecentlyUpdatedTried == {None, [int |-> 0], [int |-> 1], [int |-> 30]}

CreditCardSearch ==
    \E query \in SearchQueries, max_results \in MaxResultsTried,
       recently_updated \in RecentlyUpdatedTried :
        /\ call = Idle
        /\ call' = [fn |-> "credit_card_search", query |-> query,
                    max_results |-> max_results, recently_updated |-> recently_updated]
        /\ ret' = credit_card_search(credit_cards, now, query, max_results, recently_updated)
        /\ UNCHANGED files

NextSearch == CreditCardSearch \/ Reply

SpecSearch == InitSearch /\ [][NextSearch]_vars

Searched == call.fn = "credit_card_search"

Listed == Searched /\ "search_results" \in DOMAIN ret

\* The catalog positions the search ranks: all of them, or with
\* recently_updated = N those the filter lets through.
Candidates ==
    {i \in DOMAIN credit_cards :
        \/ call.recently_updated = None
        \/ RecentlyUpdated(credit_cards[i], now - call.recently_updated.int * HoursPerDay)}

Scored == {i \in Candidates : CardScore(credit_cards[i], Lower(call.query)) > 0}

\* The place of catalog position i in the ranking: behind every card of higher
\* score and every earlier card of the same score.
Rank(i) ==
    LET sc(j) == CardScore(credit_cards[j], Lower(call.query))
    IN  1 + Cardinality({j \in Scored : sc(j) > sc(i) \/ (sc(j) = sc(i) /\ j < i)})

IsPrefix(a, b) == Len(a) <= Len(b) /\ SubSeq(b, 1, Len(a)) = a

\* C3: for max_results in 1..50 the result holds exactly the first max_results
\* cards of score > 0 by descending score, ties in catalog order; no result
\* has score <= 0; the result for a smaller max_results is a prefix.
C3_RankedPrefix ==
    (Listed /\ call.max_results <= MaxResultsCap) =>
        /\ Len(ret.search_results) =
              (IF Cardinality(Scored) < call.max_results
               THEN Cardinality(Scored) ELSE call.max_results)
        /\ \A i \in Scored :
              Rank(i) <= Len(ret.search_results) =>
                  ret.search_results[Rank(i)] = Match(credit_cards[i], Lower(call.query))
        /\ \A k \in DOMAIN ret.search_results : ret.search_results[k].score > 0
        /\ \A m \in 1..call.max_results :
              IsPrefix(credit_card_search(credit_cards, now, call.query, m,
                                          call.recently_updated).search_results,
                       ret.search_results)

\* C3 witness: the best card stands last in the catalog, behind two cards of
\* equal score, and max_results cuts the second of them off.
C3_Witness ==
    /\ Listed
    /\ call.max_results = 2
    /\ Len(ret.search_results) = 2
    /\ Len(credit_cards) > 2
    /\ {1, 2, Len(credit_cards)} \subseteq Scored
    /\ Rank(Len(credit_cards)) = 1
    /\ Rank(1) = 2
    /\ Rank(2) = 3

SearchAt(max_results) ==
    credit_card_search(credit_cards, now, call.query, max_results, call.recently_updated)

\* C4 as claimed: every max_results behaves as its value clamped into [1,50]
\* and a result list is returned when the other arguments are valid.
C4_ClampsBothEnds ==
    Searched =>
        LET clamped == IF call.max_results < 1 THEN 1
                       ELSE IF call.max_results > MaxResultsCap THEN MaxResultsCap
                       ELSE call.max_results
        IN  /\ ret = SearchAt(clamped)
            /\ "search_results" \in DOMAIN SearchAt(1) => "search_results" \in DOMAIN ret

\* C4 amended: a max_results above 50 behaves as 50 and returns a result list
\* (when the other arguments are valid); a max_results below 1 is answered
\* with the error "max_results must be a positive integer".
C4_ClampsAbove ==
    Searched =>
        /\ call.max_results > MaxResultsCap =>
              /\ ret = SearchAt(MaxResultsCap)
              /\ "search_results" \in DOMAIN SearchAt(1) => "search_results" \in DOMAIN ret
        /\ call.max_results < 1 =>
              ret = Error("max_results must be a positive integer")

\* C4 witness: max_results = 51 on a catalog with more than 50 matching cards
\* returns 50 of them.
C4_Witness ==
    /\ Listed
    /\ call.max_results > MaxResultsCap
    /\ Cardinality(Scored) > MaxResultsCap
    /\ Len(ret.search_results) = MaxResultsCap

\* The last_updated texts of SearchCards that strptime("%m/%d/%y") accepts.
ParsableDates ==
    {dToday, dYesterday, d14DaysAgo, d30DaysAgo, d31DaysAgo, dTomorrow, dYear69}

\* last_updated is missing, empty or not parsable as MM/DD/YY.
Undated(card) ==
    \/ "last_updated" \notin DOMAIN card
    \/ card.last_updated = <<>>
    \/ card.last_updated \notin ParsableDates

\* C5: with recently_updated = N >= 1 no card whose last_updated is missing,
\* empty or unparsable is in the results, and the results are those of the
\* same search on the catalog without these cards.
C5_UndatedExcluded ==
    (Searched /\ call.recently_updated # None /\ call.recently_updated.int >= 1) =>
        /\ "search_results" \in DOMAIN ret <=> call.max_results >= 1
        /\ "search_results" \in DOMAIN ret =>
              \A k \in DOMAIN ret.search_results : \A i \in DOMAIN credit_cards :
                  Undated(credit_cards[i]) =>
                      ret.search_results[k].annual_fee # credit_cards[i].annual_fee
        /\ ret = credit_card_search(SelectSeq(credit_cards, LAMBDA c : ~Undated(c)),
                                    now, call.query, call.max_results,
                                    call.recently_updated)

\* C5 witness: a catalog with a card that matches the query but has no usable
\* date and a dated card that is returned.
C5_Witness ==
    /\ Listed
    /\ call.recently_updated # None
    /\ Len(ret.search_results) = 1
    /\ call.max_results = 2
    /\ \E i \in DOMAIN credit_cards :
          /\ Undated(credit_cards[i])
          /\ CardScore(credit_cards[i], Lower(call.query)) > 0

\* The day (ordinal) of the card an entry of the results was made from.
DaysOfEntry(entry) ==
    {Strptime(credit_cards[i].last_updated) :
        i \in {j \in DOMAIN credit_cards :
                  /\ credit_cards[j].annual_fee = entry.annual_fee
                  /\ ~Undated(credit_cards[j])}}

\* C6 as claimed: with recently_updated = N every returned card is dated
\* within [now - N days, now]: not before now - N days and not after now.
C6_WithinWindow ==
    (Listed /\ call.recently_updated # None) =>
        \A k \in DOMAIN ret.search_results :
            \A day \in DaysOfEntry(ret.search_results[k]) :
                /\ day * HoursPerDay >= now - call.recently_updated.int * HoursPerDay
                /\ day * HoursPerDay <= now

-----------------------------------------------------------------------------
(* Transfer partners: table and valuations are drawn at start, then the    *)
(* two tools are called.                                                   *)

sBa == <<"B", "a">>
sXd == <<"X", "-", "d">>
sU_d == <<"U", " ", "d">>
s_uD == <<"u", "-", "D">>
s_ab_key == <<"a", "b">>
s_cd_key == <<"c", "d">>
s_u_d == <<"u", "_", "d">>
s_x_d == <<"x", "_", "d">>
s_d == <<"d">>
sZ == <<"z">>
sNone == <<"N", "o", "n", "e">>
sVaries == <<"V", "a", "r", "i", "e", "s">>
sOnePointFive == <<"1", ".", "5">>

\* An edge of transfer_partners.json.
Edge(loyalty_program, rest) == ("Loyalty Program" :> loyalty_program) @@ rest

\* Partner lists: bonuses of all kinds, destinations that normalize to the
\* same valuation key, an edge without Loyalty Program, an empty list.
PartnerLists ==
    {<<>>,
     <<Edge(sCd, [Ratio |-> 100, Bonus |-> [num |-> 125], Notes |-> s_a]),
       Edge(sU_d, [Bonus |-> [str |-> sNone]]),
       Edge(s_uD, [Ratio |-> 200, Bonus |-> [num |-> 100]])>>,
     <<Edge(s_ab, [Bonus |-> [str |-> sVaries], bonus_expiration |-> [str |-> dToday]]),
       Edge(sCd, [Bonus |-> [num |-> 150], bonus_expiration |-> [str |-> dTomorrow]]),
       [Bonus |-> [num |-> 200], Best |-> TRUE]>>,
     <<Edge(sAb, [Bonus |-> [null |-> TRUE]]),
       Edge(s_uD, [Bonus |-> [str |-> sOnePointFive]]),
       Edge(sCd, [Bonus |-> [num |-> 50]]),
       Edge(sXd, [Bonus |-> [num |-> 125]])>>,
     <<Edge(sU_d, <<>>), Edge(sXd, [Bonus |-> [num |-> 101]])>>}

ProgramKeys == {sAb, sBa, sXd}

\* transfer_partners.json: up to MaxPrograms distinct keys, each with a list.
TransferTables ==
    {t \in SeqUpTo([key : ProgramKeys, partners : PartnerLists], MaxPrograms) :
        \A i \in DOMAIN t, j \in DOMAIN t : i # j => t[i].key # t[j].key}

\* Merged valuation tables, keyed by normalized program names.
ValuationTables ==
    {<<>>,
     (s_cd_key :> 120) @@ (s_u_d :> 120) @@ (s_ab_key :> 150),
     (s_cd_key :> 80) @@ (s_x_d :> 210) @@ (s_ba :> 300)}

InitTransfer ==
    /\ credit_cards = <<>>
    /\ transfer_partners \in TransferTables
    /\ valuations \in ValuationTables
    /\ valuations_json = None
    /\ user_data = None
    /\ now = 0
    /\ call = Idle
    /\ ret = None
    /\ loaded = <<>>
    /\ download_cache = <<>>

ProgramNames == {sA, s_d, sZ, sEmpty}

Directions == {"from", "to", "both"}

LookupTransferPartners ==
    \E program_name \in ProgramNames, direction \in Directions :
        /\ call = Idle
        /\ call' = [fn |-> "lookup_transfer_partners", program_name |-> program_name,
                    direction |-> direction]
        /\ ret' = lookup_transfer_partners(transfer_partners, valuations,
                                           program_name, direction)
        /\ UNCHANGED files

GetTransferBonuses ==
    \E from_program \in {sEmpty, sA, sZ} :
        /\ call = Idle
        /\ call' = [fn |-> "get_transfer_bonuses", from_program |-> from_program]
        /\ ret' = get_transfer_bonuses(transfer_partners, from_program)
        /\ UNCHANGED files

NextTransfer == LookupTransferPartners \/ GetTransferBonuses \/ Reply

SpecTransfer == InitTransfer /\ [][NextTransfer]_vars

BonusesListed == call.fn = "get_transfer_bonuses" /\ "bonuses" \in DOMAIN ret

\* C7: every edge get_transfer_bonuses returns is an edge of the table, under
\* a source program the filter admits, whose Bonus is a number > 1.0 (so not
\* absent, not "None" or "Varies", not another string); the edges are in
\* descending order of the multiplier and count is their number.
C7_ActiveBonusesOnly ==
    BonusesListed =>
        /\ \A k \in DOMAIN ret.bonuses :
              LET b == ret.bonuses[k]
              IN  /\ "num" \in DOMAIN b.bonus_multiplier
                  /\ b.bonus_multiplier.num > One
                  /\ \E i \in DOMAIN transfer_partners :
                        /\ transfer_partners[i].key = b.from_program
                        /\ \E n \in DOMAIN transfer_partners[i].partners :
                              LET e == transfer_partners[i].partners[n]
                              IN  /\ "Bonus" \in DOMAIN e
                                  /\ e.Bonus = b.bonus_multiplier
                                  /\ b.to_program =
                                       (IF "Loyalty Program" \in DOMAIN e
                                        THEN e["Loyalty Program"] ELSE <<>>)
                  /\ call.from_program # <<>> =>
                        Contains(Lower(call.from_program), Lower(b.from_program))
        /\ \A k \in 1..(Len(ret.bonuses) - 1) :
              ret.bonuses[k].bonus_multiplier.num >= ret.bonuses[k + 1].bonus_multiplier.num
        /\ ret.count = Len(ret.bonuses)

\* C7 witness: bonuses returned in another order than the file's, from a table
\* that also holds a sentinel bonus and a bonus of exactly 1.0.
C7_Witness ==
    /\ BonusesListed
    /\ Len(transfer_partners) > 1
    /\ Len(ret.bonuses) >= 2
    /\ ret.bonuses[1].from_program = transfer_partners[Len(transfer_partners)].key
    /\ ret.bonuses[1].bonus_multiplier.num > ret.bonuses[2].bonus_multiplier.num
    /\ ret.bonuses[2].from_program = transfer_partners[1].key
    /\ \E i \in DOMAIN transfer_partners : \E n \in DOMAIN transfer_partners[i].partners :
          /\ "Bonus" \in DOMAIN transfer_partners[i].partners[n]
          /\ transfer_partners[i].partners[n].Bonus = [str |-> sNone]
    /\ \E i \in DOMAIN transfer_partners : \E n \in DOMAIN transfer_partners[i].partners :
          /\ "Bonus" \in DOMAIN transfer_partners[i].partners[n]
          /\ transfer_partners[i].partners[n].Bonus = [num |-> One]

Looked ==
    /\ call.fn = "lookup_transfer_partners"
    /\ call.program_name # <<>>
    /\ call.direction \in {"from", "to"}

\* Positions of the source programs whose key contains the query.
KeysContaining ==
    {k \in DOMAIN transfer_partners :
        Contains(Lower(call.program_name), Lower(transfer_partners[k].key))}

\* The destination name of an edge.
Destination(e) == IF "Loyalty Program" \in DOMAIN e THEN e["Loyalty Program"] ELSE <<>>

\* The valuation of a program name: the entry under its normalized key, else 1.0.
ValuationOf(name) ==
    IF NormalizeKey(name) \in DOMAIN valuations
    THEN valuations[NormalizeKey(name)] ELSE One

\* The place of edge n of `edges` when ordered by destination valuation
\* descending, ties in edge order.
EdgeRank(edges, n) ==
    1 + Cardinality({m \in DOMAIN edges :
            \/ ValuationOf(Destination(edges[m])) > ValuationOf(Destination(edges[n]))
            \/ /\ ValuationOf(Destination(edges[m])) = ValuationOf(Destination(edges[n]))
               /\ m < n})

\* C8: direction 'from' reports the first source program, in file order, whose
\* key contains the query case-insensitively, with one entry per edge of that
\* key carrying the destination's valuation, by valuation descending and ties
\* in edge order.
C8_FromFirstKeyRanked ==
    (Looked /\ call.direction = "from" /\ KeysContaining # {}) =>
        LET edges == transfer_partners[Min(KeysContaining)].partners
        IN  /\ ret.type = "from_program"
            /\ ret.source_program = transfer_partners[Min(KeysContaining)].key
            /\ Len(ret.dest_programs) = Len(edges)
            /\ \A n \in DOMAIN edges :
                  /\ ret.dest_programs[EdgeRank(edges, n)].loyalty_program
                        = Destination(edges[n])
                  /\ ret.dest_programs[EdgeRank(edges, n)].valuation
                        = ValuationOf(Destination(edges[n]))
                  /\ ret.dest_programs[EdgeRank(edges, n)].ratio
                        = (IF "Ratio" \in DOMAIN edges[n] THEN edges[n].Ratio ELSE One)

\* C8 witness: two keys contain the query, and the edges of the first come
\* back reordered, with two of them at the same valuation.
C8_Witness ==
    /\ Looked
    /\ call.direction = "from"
    /\ Cardinality(KeysContaining) = 2
    /\ ret.type = "from_program"
    /\ Len(ret.dest_programs) >= 3
    /\ ret.dest_programs[1].valuation > ret.dest_programs[2].valuation
    /\ ret.dest_programs[2].valuation = ret.dest_programs[3].valuation
    /\ EdgeRank(transfer_partners[Min(KeysContaining)].partners, 1) # 1

\* The edges, as <<program position, edge position>>, whose destination
\* contains the query.
EdgesTo ==
    {p \in UNION {{<<i, n>> : n \in DOMAIN transfer_partners[i].partners} :
                     i \in DOMAIN transfer_partners} :
        Contains(Lower(call.program_name),
                 Lower(Destination(transfer_partners[p[1]].partners[p[2]])))}

\* The place of an edge in file order then edge order.
FileRank(p) ==
    1 + Cardinality({q \in EdgesTo : q[1] < p[1] \/ (q[1] = p[1] /\ q[2] < p[2])})

\* C9: direction 'to' returns every edge whose destination contains the query
\* case-insensitively, over all source programs, in file order then edge
\* order, whatever the valuations are.
C9_ToInFileOrder ==
    (Looked /\ call.direction = "to" /\ EdgesTo # {}) =>
        /\ ret.type = "to_program"
        /\ Len(ret.source_programs) = Cardinality(EdgesTo)
        /\ \A p \in EdgesTo :
              LET e == transfer_partners[p[1]].partners[p[2]]
                  entry == ret.source_programs[FileRank(p)]
              IN  /\ entry.loyalty_program = transfer_partners[p[1]].key
                  /\ entry.ratio = (IF "Ratio" \in DOMAIN e THEN e.Ratio ELSE One)
                  /\ entry.summary.valuation = ValuationOf(transfer_partners[p[1]].key)
                  /\ ("bonus" \in DOMAIN entry) => entry.bonus = e.Bonus

\* C9 witness: edges of two source programs are returned, the second program
\* being valued higher than the first.
C9_Witness ==
    /\ Looked
    /\ call.direction = "to"
    /\ ret.type = "to_program"
    /\ Len(ret.source_programs) >= 2
    /\ ret.source_programs[1].loyalty_program # ret.source_programs[2].loyalty_program
    /\ ret.source_programs[1].summary.valuation < ret.source_programs[2].summary.valuation

ProgramMatches ==
    IF call.direction = "from" THEN KeysContaining # {} ELSE EdgesTo # {}

\* C10: for a non-empty name and direction 'from' or 'to', the result is the
\* type "none" marker, carrying the program name as given, exactly when no
\* program matches; otherwise it is a from_program / to_program result.
C10_NoneIffNoMatch ==
    Looked =>
        /\ (ret.type = "none") <=> ~ProgramMatches
        /\ ~ProgramMatches =>
              /\ ret.results = <<>>
              /\ ret.message.program_name = call.program_name
        /\ ProgramMatches =>
              ret.type = (IF call.direction = "from" THEN "from_program" ELSE "to_program")

\* C10 witness: a matching source program without partners gives a
\* from_program result with no destinations, not the "none" marker.
C10_Witness ==
    /\ Looked
    /\ call.direction = "from"
    /\ ret.type = "from_program"
    /\ ret.dest_programs = <<>>

-----------------------------------------------------------------------------
(* Valuations: valuations.json and user.json are drawn at start; the merged *)
(* table is read, filtered, and used by the transfer lookup.                *)

Item(key, val_data) == [key |-> key, val_data |-> val_data]

\* Entries of valuations.json: objects with and without value, with a display
\* name that normalizes to another entry's key, bare numbers, a val_data that
\* is neither, and a key that is not in normalized form.
RawItems ==
    {Item(s_cd_key, [obj |-> [value |-> 120, display_name |-> sCd]]),
     Item(s_cd_key, [obj |-> [display_name |-> sCd]]),
     Item(s_cd_key, [num |-> 80]),
     Item(s_u_d, [obj |-> [value |-> 150, display_name |-> sCd]]),
     Item(s_u_d, [str |-> sX]),
     Item(s_ab_key, [obj |-> [value |-> 200]]),
     Item(sU_d, [num |-> 90])}

DistinctKeys(items) ==
    \A i \in DOMAIN items, j \in DOMAIN items : i # j => items[i].key # items[j].key

ValuationFiles ==
    {None, [version |-> "1.0"]}
        \cup {[valuations |-> items] :
                 items \in {s \in SeqUpTo(RawItems, MaxValuations) : DistinctKeys(s)}}

\* custom_valuations of user.json, keys as set_custom_valuation writes them.
CustomValuations ==
    {<<>>,
     <<[key |-> s_cd_key, value |-> 300]>>,
     <<[key |-> s_x_d, value |-> 210]>>,
     <<[key |-> s_x_d, value |-> 210], [key |-> s_cd_key, value |-> 300]>>}

UserFiles ==
    {None, [wallet |-> <<>>]}
        \cup {[wallet |-> <<>>, custom_valuations |-> c] : c \in CustomValuations}

\* One source program with three edges, two of them to destinations of one key.
ValuationPartners ==
    <<[key |-> sAb,
       partners |-> <<Edge(sCd, [Ratio |-> 100]), Edge(sU_d, <<>>), Edge(s_uD, <<>>),
                      Edge(sXd, <<>>)>>]>>

InitValuations ==
    /\ credit_cards = <<>>
    /\ transfer_partners = ValuationPartners
    /\ valuations_json \in ValuationFiles
    /\ user_data \in UserFiles
    /\ valuations = get_user_valuations(valuations_json, user_data)
    /\ now = 0
    /\ call = Idle
    /\ ret = None
    /\ loaded = <<>>
    /\ download_cache = <<>>

GetUserValuations ==
    /\ call = Idle
    /\ call' = [fn |-> "get_user_valuations"]
    /\ ret' = get_user_valuations(valuations_json, user_data)
    /\ UNCHANGED files

ProgramLists ==
    {None, [list |-> <<>>], [list |-> <<sCd>>], [list |-> <<sU_d>>],
     [list |-> <<sZ, s_uD>>], [list |-> <<s_cd_key, sCd, s_x_d>>]}

GetValuations ==
    \E programs \in ProgramLists :
        /\ call = Idle
        /\ call' = [fn |-> "get_valuations", programs |-> programs]
        /\ ret' = get_valuations(valuations_json, user_data, programs)
        /\ UNCHANGED files

NextValuations == LookupTransferPartners \/ GetUserValuations \/ GetValuations \/ Reply

SpecValuations == InitValuations /\ [][NextValuations]_vars

\* The entries of valuations.json and of custom_valuations as the files hold them.
FileItems ==
    IF valuations_json = None \/ "valuations" \notin DOMAIN valuations_json
    THEN <<>> ELSE valuations_json.valuations

CustomItems ==
    IF user_data = None \/ "custom_valuations" \notin DOMAIN user_data
    THEN <<>> ELSE user_data.custom_valuations

\* A program key has a value: a custom valuation, a bare number in the file,
\* or an object in the file that carries value.
HasValue(k) ==
    \/ \E i \in DOMAIN CustomItems : CustomItems[i].key = k
    \/ \E i \in DOMAIN FileItems :
          /\ FileItems[i].key = k
          /\ \/ "num" \in DOMAIN FileItems[i].val_data
             \/ /\ "obj" \in DOMAIN FileItems[i].val_data
                /\ "value" \in DOMAIN FileItems[i].val_data.obj

\* C11 as claimed: in the transfer lookup a destination whose valuation is
\* missing, because its key is in neither table or because its entry in
\* valuations.json carries no value, is valued at 1.0 and never at 0.
C11_MissingIsOne ==
    (Looked /\ call.direction = "from" /\ ret.type = "from_program") =>
        \A n \in DOMAIN ret.dest_programs :
            ~HasValue(NormalizeKey(ret.dest_programs[n].loyalty_program)) =>
                ret.dest_programs[n].valuation = One

Filtered ==
    /\ call.fn = "get_valuations"
    /\ call.programs # None
    /\ call.programs.list # <<>>

\* The merged keys a normalized name stands for: those whose key, or whose
\* display name, normalizes to it.
KeysNamed(normalized) ==
    {k \in DOMAIN valuations :
        \/ NormalizeKey(k) = normalized
        \/ \E i \in DOMAIN FileItems :
              /\ FileItems[i].key = k
              /\ "obj" \in DOMAIN FileItems[i].val_data
              /\ "display_name" \in DOMAIN FileItems[i].val_data.obj
              /\ FileItems[i].val_data.obj.display_name # <<>>
              /\ NormalizeKey(FileItems[i].val_data.obj.display_name) = normalized}

Requested == {NormalizeKey(call.programs.list[n]) : n \in DOMAIN call.programs.list}

\* C20 as claimed: with a programs list the result holds exactly the merged
\* valuations whose key or display name normalizes to a requested program's
\* normalized form; with None or an empty list it holds all of them.
C20_ExactlyMatching ==
    call.fn = "get_valuations" =>
        IF Filtered
        THEN /\ DOMAIN ret.valuations = UNION {KeysNamed(r) : r \in Requested}
             /\ \A k \in DOMAIN ret.valuations : ret.valuations[k] = valuations[k]
        ELSE ret.valuations = valuations

\* The place of a merged key in the order of the merged table: the defaults
\* in file order, then the keys only the user has.
MergedPlace(k) ==
    LET keys == KeysOf(MergedItems(valuations_json, user_data))
    IN  CHOOSE n \in DOMAIN keys : keys[n] = k

\* C20 amended: with a programs list the result holds, for every requested
\* program some merged key or display name normalizes to, the one such key
\* that comes last in the merged table, with its merged value; programs that
\* match nothing add nothing; with None or an empty list it holds the whole
\* merged table.
C20_LastRegisteredWins ==
    call.fn = "get_valuations" =>
        /\ "error" \notin DOMAIN ret
        /\ IF Filtered
           THEN /\ DOMAIN ret.valuations =
                      {CHOOSE k \in KeysNamed(r) :
                           \A o \in KeysNamed(r) : MergedPlace(o) <= MergedPlace(k) :
                         r \in {q \in Requested : KeysNamed(q) # {}}}
                /\ \A k \in DOMAIN ret.valuations : ret.valuations[k] = valuations[k]
           ELSE ret.valuations = valuations

\* C20 witness: a program requested by its display name is found although its
\* key differs, another requested program matches nothing, and one requested
\* name stands for two merged keys of which one is returned.
C20_Witness ==
    /\ Filtered
    /\ \E r \in Requested : KeysNamed(r) = {}
    /\ \E r \in Requested :
          /\ Cardinality(KeysNamed(r)) = 2
          /\ Cardinality(KeysNamed(r) \cap DOMAIN ret.valuations) = 1
          /\ \E k \in KeysNamed(r) \cap DOMAIN ret.valuations : NormalizeKey(k) # r

-----------------------------------------------------------------------------
(* Benefit search: the catalog is drawn at start, then benefits are         *)
(* searched.                                                                *)

\* Most cards in the catalog of the benefit-search runs.
MaxBenefitCards == 2

sTier == <<"t", "i", "e", "r">>
sAirlineStatus == sAirline \o <<" ">> \o sStatus
sHotelAirline == sHotel \o <<" ">> \o sAirline
sEliteCd == sElite \o <<" ">> \o s_cd

Field(k, v) == [k |-> k, v |-> v]

\* Catalog records as far as benefits_search reads them; annual_fee tells them
\* apart in the results.
BenefitCards ==
    {[annual_fee |-> Fee(1),
      benefits |-> [status |-> [airline_elite_status |->
                        <<<<Field("program", sAb), Field("tier", sCd)>>>>]]],
     [annual_fee |-> Fee(2),
      benefits |-> [credits |-> <<[type |-> sCD \o <<" ">> \o sAb], [amount |-> Fee(5)]>>]],
     [annual_fee |-> Fee(3),
      benefits |-> [other |-> <<sX, sAirlineStatus>>,
                    status |-> [hotel_elite_status |-> <<>>]]],
     [annual_fee |-> Fee(4),
      benefits |-> [status |-> [rental_car_elite_status |->
                        <<<<Field("program", sX), Field("description", s_ab)>>>>]]],
     [annual_fee |-> Fee(5), card_name |-> sAb],
     [annual_fee |-> Fee(6),
      benefits |-> [protections |-> [travel_protections |->
                                        <<[type |-> sAb, description |-> s_cd]>>],
                    status |-> [other_elite_status |-> <<<<Field("tier", sX)>>>>]]],
     [annual_fee |-> Fee(7), benefits |-> [lounge |-> <<[type |-> s_ab]>>]]}

BenefitQueries ==
    {sAirlineStatus, sCar, sHotelAirline, sTier, s_ab, sStatus, sEliteCd, sZ, sCD, sEmpty}

InitBenefits ==
    /\ credit_cards \in SeqUpTo(BenefitCards, MaxBenefitCards)
    /\ transfer_partners = <<>>
    /\ valuations = <<>>
    /\ valuations_json = None
    /\ user_data = None
    /\ now = 0
    /\ call = Idle
    /\ ret = None
    /\ loaded = <<>>
    /\ download_cache = <<>>

BenefitsSearch ==
    \E query \in BenefitQueries :
        /\ call = Idle
        /\ call' = [fn |-> "benefits_search", query |-> query]
        /\ ret' = benefits_search(credit_cards, query)
        /\ UNCHANGED files

NextBenefits == BenefitsSearch \/ Reply

SpecBenefits == InitBenefits /\ [][NextBenefits]_vars

BenefitsListed == call.fn = "benefits_search" /\ "matches" \in DOMAIN ret

\* Catalog position i is among the matches.
Returned(i) ==
    \E k \in DOMAIN ret.matches : ret.matches[k].annual_fee = credit_cards[i].annual_fee

QueryTokens == {Words(Lower(call.query))[n] : n \in DOMAIN Words(Lower(call.query))}

\* The status categories the tokens of the query name.
NamedCategories ==
    (IF sHotel \in QueryTokens THEN {"hotel_elite_status"} ELSE {})
        \cup (IF sAirline \in QueryTokens THEN {"airline_elite_status"} ELSE {})
        \cup (IF sRental \in QueryTokens \/ sCar \in QueryTokens
              THEN {"rental_car_elite_status"} ELSE {})

\* The status lists of a card, by category.
StatusOf(card) ==
    IF "benefits" \in DOMAIN card /\ "status" \in DOMAIN card.benefits
    THEN card.benefits.status ELSE <<>>

HasEntryIn(card, categories) ==
    \E c \in categories \cap DOMAIN StatusOf(card) : StatusOf(card)[c] # <<>>

\* The query text is in a credit type, a lounge type, an other text or a
\* protection type or description of the card.
InBenefitText(card) ==
    "benefits" \in DOMAIN card /\ EarlierFieldsMatch(card.benefits, Lower(call.query))

\* C13: when the query holds a category token, a card with an entry in a
\* named category is matched whatever its texts are, and a card without one
\* is matched only through its credits, lounges, other texts or protections.
C13_CategoryPresence ==
    (BenefitsListed /\ NamedCategories # {}) =>
        \A i \in DOMAIN credit_cards :
            /\ HasEntryIn(credit_cards[i], NamedCategories) => Returned(i)
            /\ (~InBenefitText(credit_cards[i])
                    /\ ~HasEntryIn(credit_cards[i], NamedCategories)) => ~Returned(i)

\* C13 witness: "airline status" returns a card whose only airline entry
\* holds neither word, and leaves out a card with a rental-car entry only.
C13_Witness ==
    /\ BenefitsListed
    /\ call.query = sAirlineStatus
    /\ Len(credit_cards) = 2
    /\ Returned(1)
    /\ ~InBenefitText(credit_cards[1])
    /\ \A n \in DOMAIN StatusOf(credit_cards[1]).airline_elite_status :
          ~Contains(sAirline, StatText(StatusOf(credit_cards[1]).airline_elite_status[n]))
    /\ ~Returned(2)
    /\ HasEntryIn(credit_cards[2], {"rental_car_elite_status"})

\* The query text is in the program, tier or description of a status entry.
InStatusContent(card) ==
    \E c \in DOMAIN StatusOf(card) : \E n \in DOMAIN StatusOf(card)[c] :
        \E f \in DOMAIN StatusOf(card)[c][n] :
            Contains(Lower(call.query), Lower(StatusOf(card)[c][n][f].v))

\* C14 as claimed: a query without status vocabulary matches a card only if
\* its text is in the content of a benefit or status entry of the card; the
\* names of the fields of a status entry never make a match.
C14_ContentOnly ==
    (BenefitsListed /\ NamedCategories = {} /\ QueryTokens \cap {sStatus, sElite} = {}) =>
        \A i \in DOMAIN credit_cards :
            Returned(i) => (InBenefitText(credit_cards[i]) \/ InStatusContent(credit_cards[i]))

\* The tokens of the query that are neither "status" nor "elite".
RemainingTokens == QueryTokens \ {sStatus, sElite}

FourStatusCategories ==
    {"hotel_elite_status", "airline_elite_status", "rental_car_elite_status",
     "other_elite_status"}

\* A remaining token is in the program, tier or description of a status
\* entry of the card, in one of the four categories.
TokenInStatusEntry(card) ==
    \E c \in FourStatusCategories \cap DOMAIN StatusOf(card) :
        \E n \in DOMAIN StatusOf(card)[c] : \E m \in DOMAIN StatusOf(card)[c][n] :
            /\ StatusOf(card)[c][n][m].k \in {"program", "tier", "description"}
            /\ \E word \in RemainingTokens :
                  Contains(word, Lower(StatusOf(card)[c][n][m].v))

\* C24: for a query without category token that holds "status" or "elite",
\* a card not matched by credits, lounge, other or protections is matched,
\* without remaining keywords, iff it has an entry in one of the four status
\* categories, and with remaining keywords iff one of them is in the
\* program, tier or description of one of its status entries.
C24_GenericStatus ==
    (BenefitsListed /\ NamedCategories = {} /\ QueryTokens \cap {sStatus, sElite} # {}) =>
        \A i \in DOMAIN credit_cards :
            ~InBenefitText(credit_cards[i]) =>
                (Returned(i) <=>
                    IF RemainingTokens = {}
                    THEN HasEntryIn(credit_cards[i], FourStatusCategories)
                    ELSE TokenInStatusEntry(credit_cards[i]))

\* C24 witness: "elite cd" returns the card whose airline entry has tier Cd
\* and leaves out a card whose status entry holds no "cd".
C24_Witness ==
    /\ BenefitsListed
    /\ call.query = sEliteCd
    /\ Len(credit_cards) = 2
    /\ Returned(1)
    /\ ~InBenefitText(credit_cards[1])
    /\ ~Returned(2)
    /\ HasEntryIn(credit_cards[2], FourStatusCategories)

-----------------------------------------------------------------------------
(* The tool layer: catalog and partner table are drawn at start, then the   *)
(* tools are called with arguments of every kind, malformed ones included.  *)

\* Most cards in the catalog of the tool-layer runs.
MaxToolCards == 2

\* A text of n characters that is in no card and no program.
Long(n) == [i \in 1..n |-> "z"]

sDotDotSlash == <<"A", ".", ".", "/">>
sTwoLines == <<"A", "\n", "b">>
sBusinessCapital == <<"B", "u", "s", "i", "n", "e", "s", "s">>
s750 == <<"7", "5", "0">>

\* Catalog records, one of them with card_name null and one with
\* last_updated null.
ToolCards ==
    {[card_name |-> sAb, issuer |-> s_cd, annual_fee |-> Fee(1), card_type |-> sPersonal,
      first_year_value_estimate |-> [num |-> 500],
      benefits |-> [lounge |-> <<[type |-> s_ab]>>], last_updated |-> dToday],
     [issuer |-> sAb, annual_fee |-> Fee(2), null_fields |-> {"card_name"},
      last_updated |-> dToday],
     [card_name |-> sCd, annual_fee |-> Fee(3), card_type |-> sBusinessCapital,
      first_year_value_estimate |-> [str |-> s750], null_fields |-> {"last_updated"}],
     [card_name |-> sAB, annual_fee |-> Fee(4), first_year_value_estimate |-> [str |-> sX],
      last_updated |-> d31DaysAgo]}

InitTools ==
    /\ credit_cards \in SeqUpTo(ToolCards, MaxToolCards)
    /\ transfer_partners \in {<<>>, ValuationPartners}
    /\ valuations = <<>>
    /\ valuations_json = None
    /\ user_data = None
    /\ now = Ordinal(2024, 3, 15) * HoursPerDay
    /\ call = Idle
    /\ ret = None
    /\ loaded = <<>>
    /\ download_cache = <<>>

NamesTried == {sEmpty, sA, sAb, sZ, Long(MaxNameLen), Long(MaxNameLen + 1)}

QueriesTried == {sEmpty, sA, sZ, Long(MaxQueryLen), Long(MaxQueryLen + 1)}

ToolCreditCardSearch ==
    \E query \in QueriesTried, max_results \in {0, 1},
       recently_updated \in {None, [int |-> 0], [int |-> 1]} :
        /\ call = Idle
        /\ call' = [fn |-> "credit_card_search", query |-> query,
                    max_results |-> max_results, recently_updated |-> recently_updated]
        /\ ret' = credit_card_search(credit_cards, now, query, max_results, recently_updated)
        /\ UNCHANGED files

\* The names get_credit_card_info hands to get_credit_card_by_name.
NameIsValid(card_name) ==
    card_name # <<>> /\ Len(card_name) <= MaxNameLen /\ ~HasInvalidCharacters(card_name)

ToolGetCreditCardInfo ==
    \E card_name \in NamesTried \cup {sDotDotSlash, sTwoLines} :
      \E wr \in IF NameIsValid(card_name)
                THEN WRatioTables(card_name, NameSet(credit_cards)) ELSE {<<>>} :
        /\ call = Idle
        /\ call' = [fn |-> "get_credit_card_info", card_name |-> card_name, wr |-> wr]
        /\ ret' = get_credit_card_info(credit_cards, card_name, wr)
        /\ UNCHANGED files

ToolLookupTransferPartners ==
    \E program_name \in NamesTried, direction \in Directions :
        /\ call = Idle
        /\ call' = [fn |-> "lookup_transfer_partners", program_name |-> program_name,
                    direction |-> direction]
        /\ ret' = lookup_transfer_partners(transfer_partners, valuations,
                                           program_name, direction)
        /\ UNCHANGED files

ToolGetTransferBonuses ==
    \E from_program \in NamesTried :
        /\ call = Idle
        /\ call' = [fn |-> "get_transfer_bonuses", from_program |-> from_program]
        /\ ret' = get_transfer_bonuses(transfer_partners, from_program)
        /\ UNCHANGED files

ToolBenefitsSearch ==
    \E query \in QueriesTried \cup {s_ab} :
        /\ call = Idle
        /\ call' = [fn |-> "benefits_search", query |-> query]
        /\ ret' = benefits_search(credit_cards, query)
        /\ UNCHANGED files

ToolGetTopCardOffers ==
    \E n \in {0, 1, MaxResultsCap + 1},
       card_type \in {sBusiness, sPersonal, sAll, sBusinessCapital, sEmpty} :
        /\ call = Idle
        /\ call' = [fn |-> "get_top_card_offers", n |-> n, card_type |-> card_type]
        /\ ret' = get_top_card_offers(credit_cards, n, card_type)
        /\ UNCHANGED files

NextTools ==
    \/ ToolCreditCardSearch
    \/ ToolGetCreditCardInfo
    \/ ToolLookupTransferPartners
    \/ ToolGetTransferBonuses
    \/ ToolBenefitsSearch
    \/ ToolGetTopCardOffers
    \/ Reply

SpecTools == InitTools /\ [][NextTools]_vars

\* A card without its null fields: what the card is if null means absent.
WithoutNulls(card) == [k \in DOMAIN card \ {"null_fields"} |-> card[k]]

\* C15 as claimed, for credit_card_search: the call returns a result or an
\* error, and a null field of a record counts as absent, so that the answer
\* is that of the same call on the catalog without its null fields.
C15_NullIsAbsent ==
    call.fn = "credit_card_search" =>
        /\ "search_results" \in DOMAIN ret \/ "error" \in DOMAIN ret
        /\ ret = credit_card_search([k \in DOMAIN credit_cards |-> WithoutNulls(credit_cards[k])],
                                    now, call.query, call.max_results, call.recently_updated)

\* No record of the catalog makes the scoring loop of the search fail.
CatalogWellTyped == \A k \in DOMAIN credit_cards : ~SearchRaises(credit_cards[k])

\* C16: a well-formed query that matches nothing gets a value that is not a
\* bare error and that carries the query: in get_credit_card_info the
\* "Card not found" value with its suggestion, in lookup_transfer_partners
\* the type "none" marker, in the two searches an empty list with the query.
C16_NotFoundCarriesQuery ==
    /\ (/\ call.fn = "get_credit_card_info"
        /\ NameIsValid(call.card_name)
        /\ get_credit_card_by_name(credit_cards, call.card_name, call.wr) = None) =>
            /\ DOMAIN ret = {"error", "suggestion"}
            /\ ret.error.card_name = call.card_name
    /\ (/\ call.fn = "lookup_transfer_partners"
        /\ call.program_name # <<>>
        /\ Len(call.program_name) <= MaxNameLen
        /\ call.direction \in {"from", "to"}
        /\ ~ProgramMatches) =>
            /\ "error" \notin DOMAIN ret
            /\ ret.type = "none"
            /\ ret.message.program_name = call.program_name
    /\ (/\ call.fn = "credit_card_search"
        /\ call.query # <<>>
        /\ Len(call.query) <= MaxQueryLen
        /\ call.max_results >= 1
        /\ call.recently_updated # None => call.recently_updated.int >= 1
        /\ CatalogWellTyped
        /\ \A k \in DOMAIN credit_cards : CardScore(credit_cards[k], Lower(call.query)) = 0) =>
            /\ "error" \notin DOMAIN ret
            /\ ret.search_results = <<>>
            /\ ret.query = call.query
    /\ (/\ call.fn = "benefits_search"
        /\ call.query # <<>>
        /\ Len(call.query) <= MaxQueryLen
        /\ \A k \in DOMAIN credit_cards : ~BenefitMatched(credit_cards[k], Lower(call.query))) =>
            /\ "error" \notin DOMAIN ret
            /\ ret.matches = <<>>
            /\ ret.query = call.query

\* C16 witness: a name that no catalog name equals and whose best score stays
\* one below the threshold is answered with "Card not found" and the name.
C16_Witness ==
    /\ call.fn = "get_credit_card_info"
    /\ call.card_name = sZ
    /\ credit_cards # <<>>
    /\ \E n \in DOMAIN call.wr : call.wr[n] = FUZZY_MATCH_THRESHOLD - 1
    /\ "suggestion" \in DOMAIN ret
    /\ ret.error.card_name = sZ

\* The messages of the validation errors.
ValidationMessages ==
    {"Invalid query: must be a non-empty string", "Query too long (max 500 characters)",
     "max_results must be a positive integer", "recently_updated must be a positive integer",
     "Invalid card name: must be a non-empty string", "Card name too long (max 200 characters)",
     "Invalid characters in card name",
     "Invalid program name: must be a non-empty string",
     "Program name too long (max 200 characters)",
     "Invalid direction: must be 'from' or 'to'",
     "n must be a positive integer", "card_type must be 'business', 'personal', or 'all'"}

IsValidationError(r) == DOMAIN r = {"error"} /\ r.error \in ValidationMessages

\* The arguments of the call are malformed or out of range.
Malformed ==
    \/ /\ call.fn \in {"credit_card_search", "benefits_search"}
       /\ call.query = <<>> \/ Len(call.query) > MaxQueryLen
    \/ /\ call.fn = "credit_card_search"
       /\ call.recently_updated # None
       /\ call.recently_updated.int < 1
    \/ /\ call.fn = "get_credit_card_info"
       /\ call.card_name = <<>> \/ Len(call.card_name) > MaxNameLen
    \/ /\ call.fn = "lookup_transfer_partners"
       /\ \/ call.program_name = <<>>
          \/ Len(call.program_name) > MaxNameLen
          \/ call.direction \notin {"from", "to"}
    \/ /\ call.fn = "get_transfer_bonuses"
       /\ Len(call.from_program) > MaxNameLen
    \/ /\ call.fn = "get_top_card_offers"
       /\ call.n < 1 \/ call.card_type \notin {sBusiness, sPersonal, sAll}

\* The arguments hold a text of exactly the longest length and are in range.
AtLimit ==
    /\ ~Malformed
    /\ \/ call.fn \in {"credit_card_search", "benefits_search"}
          /\ Len(call.query) = MaxQueryLen
       \/ call.fn = "get_credit_card_info" /\ Len(call.card_name) = MaxNameLen
       \/ call.fn = "lookup_transfer_partners" /\ Len(call.program_name) = MaxNameLen
       \/ call.fn = "get_transfer_bonuses" /\ Len(call.from_program) = MaxNameLen
    /\ call.fn = "credit_card_search" => call.max_results >= 1

\* C17: malformed or out-of-range arguments are answered with a validation
\* error and nothing else; arguments exactly at the length limits are not.
C17_ValidationErrors ==
    call.fn # "none" =>
        /\ Malformed => IsValidationError(ret)
        /\ AtLimit => ~IsValidationError(ret)

\* C17 witness: a query of exactly 500 characters is searched.
C17_Witness ==
    /\ call.fn = "benefits_search"
    /\ Len(call.query) = MaxQueryLen
    /\ "matches" \in DOMAIN ret

-----------------------------------------------------------------------------
(* Name resolution of blank queries: catalogs whose names hold a space.    *)

sA_b == <<"A", " ", "b">>
sC_d == <<"C", " ", "d">>

\* Catalog records with short names of two words, and one without a name.
BlankCards == {[card_name |-> sA_b], [card_name |-> sC_d], [issuer |-> sX]}

InitBlank ==
    /\ credit_cards \in SeqUpTo(BlankCards, MaxCards)
    /\ transfer_partners = <<>>
    /\ valuations = <<>>
    /\ valuations_json = None
    /\ user_data = None
    /\ now = 0
    /\ call = Idle
    /\ ret = None
    /\ loaded = <<>>
    /\ download_cache = <<>>

SpecBlank == InitBlank /\ [][NextResolve]_vars

\* C18: get_credit_card_by_name returns None for an empty catalog whatever the
\* query, and None for an empty or whitespace-only query whatever the catalog.
C18_BlankNeverMatches ==
    (Resolved /\ (credit_cards = <<>> \/ Strip(call.card_name) = <<>>)) =>
        ret = None

\* The two parts of C18 that the code does guarantee: the empty catalog and
\* the empty query (card_name == "").
C18_EmptyNeverMatches ==
    (Resolved /\ (credit_cards = <<>> \/ call.card_name = <<>>)) => ret = None

-----------------------------------------------------------------------------
(* get_user_wallet(): the wallet of user.json enriched from the catalog.   *)

\* wallet_entry.get("card_name", "")
WalletName(wallet_entry) == Get(wallet_entry, "card_name", <<>>)

\* The copy of the catalog record, without the note of the wallet entry.
EnrichedWithoutNote(card_data, wallet_entry) == card_data

\* enriched_card: card_data.copy(), plus user_note when the entry's note is truthy.
Enriched(card_data, wallet_entry) ==
    IF Truthy(wallet_entry, "note")
    THEN [k \in DOMAIN card_data \cup {"user_note"} |->
             IF k = "user_note" THEN wallet_entry.note ELSE card_data[k]]
    ELSE card_data

\* The loop over wallet_cards from position i on; wrs[name] is the table of
\* fuzz.WRatio(name, .) that the resolution of name reads.
RECURSIVE EnrichFrom(_, _, _, _, _)
EnrichFrom(cards, wallet_cards, wrs, i, enriched_wallet) ==
    IF i > Len(wallet_cards) THEN enriched_wallet
    ELSE LET wallet_entry == wallet_cards[i]
             card_name == WalletName(wallet_entry)
             card_data == get_credit_card_by_name(cards, card_name, wrs[card_name])
         IN  EnrichFrom(cards, wallet_cards, wrs, i + 1,
                 IF card_data # None
                 THEN Append(enriched_wallet, Enriched(cards[card_data.card], wallet_entry))
                 ELSE enriched_wallet)

get_user_wallet(cards, user, wrs) ==
    EnrichFrom(cards, Get(get_user_data(user), "wallet", <<>>), wrs, 1, <<>>)

-----------------------------------------------------------------------------
(* The wallet: catalog and user.json are drawn at start, then the wallet    *)
(* is read.                                                                 *)

MaxWallet == 2

WalletCatalogs ==
    {<<>>,
     <<[card_name |-> sAb, annual_fee |-> Fee(1)]>>,
     <<[card_name |-> sCd, annual_fee |-> Fee(2)]>>,
     <<[card_name |-> sAb, annual_fee |-> Fee(1)], [card_name |-> sCd, issuer |-> sX]>>}

\* Wallet entries: with a note, with an empty note, without a note, of a name
\* the catalog does not hold, and without a name.
WalletEntries ==
    {[card_name |-> sAb, note |-> sX],
     [card_name |-> s_ab, note |-> sEmpty],
     [card_name |-> sCd],
     [card_name |-> sZ, note |-> sX],
     [note |-> sX]}

WalletFiles ==
    {None, [custom_valuations |-> <<>>]}
        \cup {[wallet |-> w] : w \in SeqUpTo(WalletEntries, MaxWallet)}

InitWallet ==
    /\ credit_cards \in WalletCatalogs
    /\ transfer_partners = <<>>
    /\ valuations = <<>>
    /\ valuations_json = None
    /\ user_data \in WalletFiles
    /\ now = 0
    /\ call = Idle
    /\ ret = None
    /\ loaded = <<>>
    /\ download_cache = <<>>

\* The wallet as get_user_wallet reads it.
WalletOf == Get(get_user_data(user_data), "wallet", <<>>)

\* One table per name of the wallet: a name scores nothing or the threshold
\* against each catalog name, and the empty name scores 0.
WalletTables(wallet_cards, cards) ==
    {wrs \in [{WalletName(wallet_cards[i]) : i \in DOMAIN wallet_cards} ->
                 [NameSet(cards) -> {0, FUZZY_MATCH_THRESHOLD}]] :
        \A n \in DOMAIN wrs : n = <<>> => \A c \in DOMAIN wrs[n] : wrs[n][c] = 0}

GetUserWallet ==
    \E wrs \in WalletTables(WalletOf, credit_cards) :
        /\ call = Idle
        /\ call' = [fn |-> "get_user_wallet", wrs |-> wrs]
        /\ ret' = [list |-> get_user_wallet(credit_cards, user_data, wrs)]
        /\ UNCHANGED files

NextWallet == GetUserWallet \/ Reply

SpecWallet == InitWallet /\ [][NextWallet]_vars

Walleted == call.fn = "get_user_wallet"

\* What the name of wallet entry i resolves to in the catalog.
ResolvedAt(i) ==
    get_credit_card_by_name(credit_cards, WalletName(WalletOf[i]),
                            call.wrs[WalletName(WalletOf[i])])

Resolving == {i \in DOMAIN WalletOf : ResolvedAt(i) # None}

\* The k-th resolving entry of the wallet.
ResolvingPlace(k) ==
    CHOOSE i \in Resolving : Cardinality({j \in Resolving : j < i}) = k - 1

\* C19: get_user_wallet returns, in wallet order, one enriched record per
\* wallet entry whose card_name resolves in the catalog and nothing for the
\* others; the view is never longer than the wallet; an enriched record holds
\* the fields of the catalog record, and user_note (the entry's note) exactly
\* when the entry has a non-empty note.
C19_EnrichedWallet ==
    Walleted =>
        /\ Len(ret.list) = Cardinality(Resolving)
        /\ Len(ret.list) <= Len(WalletOf)
        /\ \A k \in DOMAIN ret.list :
              LET i == ResolvingPlace(k)
                  card == credit_cards[ResolvedAt(i).card]
                  enriched == ret.list[k]
              IN  /\ DOMAIN card \subseteq DOMAIN enriched
                  /\ \A f \in DOMAIN card : enriched[f] = card[f]
                  /\ DOMAIN enriched \ DOMAIN card \subseteq {"user_note"}
                  /\ ("user_note" \in DOMAIN enriched) <=> Truthy(WalletOf[i], "note")
                  /\ Truthy(WalletOf[i], "note") => enriched.user_note = WalletOf[i].note

\* C19 witness: a wallet of two entries whose first does not resolve and
\* whose second resolves and carries a note.
C19_Witness ==
    /\ Walleted
    /\ Len(WalletOf) = 2
    /\ Resolving = {2}
    /\ Truthy(WalletOf[2], "note")
    /\ Len(ret.list) = 1
    /\ "user_note" \in DOMAIN ret.list[1]

-----------------------------------------------------------------------------
(* Scoring: catalogs of one card, with every combination of its text       *)
(* fields present or absent, matching or not.                              *)

TextFields == {"card_name", "issuer", "rewards_currency", "card_type"}

\* The lists of a card: none, reward categories, credits and lounges, or all.
ListParts ==
    {[annual_fee |-> Fee(1)],
     [annual_fee |-> Fee(2),
      reward_multipliers |-> <<[category |-> s_a], [category |-> sCD], [category |-> s_ba],
                               [rate |-> Fee(2)]>>],
     [annual_fee |-> Fee(3),
      benefits |-> [credits |-> <<[type |-> sA], [value |-> Fee(5)]>>,
                    lounge |-> <<[type |-> s_a], [type |-> sAb]>>]],
     [annual_fee |-> Fee(4),
      reward_multipliers |-> <<[category |-> s_ba]>>,
      benefits |-> [credits |-> <<[type |-> sCD]>>, lounge |-> <<[type |-> sAb]>>]]}

ScoreCards ==
    {text @@ lists :
        text \in UNION {[present -> {sAb, sCD}] : present \in SUBSET TextFields},
        lists \in ListParts}

InitScore ==
    /\ credit_cards \in {<<card>> : card \in ScoreCards}
    /\ transfer_partners = <<>>
    /\ valuations = <<>>
    /\ valuations_json = None
    /\ user_data = None
    /\ now \in Clock
    /\ call = Idle
    /\ ret = None
    /\ loaded = <<>>
    /\ download_cache = <<>>

SpecScore == InitScore /\ [][NextSearch]_vars

\* The query is a substring of the text under `key`, case-insensitively; an
\* absent key is no match.
FieldMatches(d, key) ==
    key \in DOMAIN d /\ Contains(Lower(call.query), Lower(d[key]))

\* The table: points and reason of a field, whether it matched or not, in
\* the order name, issuer, currency, categories, credits, lounges, card type.
ListRows(list, key, label) ==
    [k \in DOMAIN list |->
        [points |-> 2, matched |-> FieldMatches(list[k], key),
         reason |-> [label |-> label, of |-> JsonGet(list[k], key)]]]

ScoreRows(card) ==
    LET benefits == IF "benefits" \in DOMAIN card THEN card.benefits ELSE [none |-> TRUE]
        listOf(d, key) == IF key \in DOMAIN d THEN d[key] ELSE <<>>
    IN  <<[points |-> 10, matched |-> FieldMatches(card, "card_name"),
           reason |-> [label |-> "Card name match"]],
          [points |-> 5, matched |-> FieldMatches(card, "issuer"),
           reason |-> [label |-> "Issuer match"]],
          [points |-> 3, matched |-> FieldMatches(card, "rewards_currency"),
           reason |-> [label |-> "Rewards currency match"]]>>
        \o ListRows(listOf(card, "reward_multipliers"), "category", "Category")
        \o ListRows(listOf(benefits, "credits"), "type", "Credit")
        \o ListRows(listOf(benefits, "lounge"), "type", "Lounge")
        \o <<[points |-> 3, matched |-> FieldMatches(card, "card_type"),
              reason |-> [label |-> "Card type match"]]>>

MatchedRows(card) == SelectSeq(ScoreRows(card), LAMBDA row : row.matched)

RECURSIVE SumOfPoints(_, _)
SumOfPoints(rows, S) ==
    IF S = {} THEN 0
    ELSE LET k == CHOOSE x \in S : TRUE IN rows[k].points + SumOfPoints(rows, S \ {k})

TableScore(card) ==
    SumOfPoints(ScoreRows(card), {k \in DOMAIN ScoreRows(card) : ScoreRows(card)[k].matched})

\* A search of the whole one-card catalog that returned a list.
ScoredOne ==
    /\ Listed
    /\ call.recently_updated = None
    /\ Len(credit_cards) = 1

\* C23: the score of a card is the sum of the table weights of its matching
\* fields (name 10, issuer 5, currency 3, card type 3, 2 per matching reward
\* category, credit type and lounge type), an absent field adds nothing, a
\* card of score 0 is not listed, and match_reasons holds the first three
\* reasons in the order name, issuer, currency, categories, credits,
\* lounges, card type.
C23_ScoreTable ==
    ScoredOne =>
        LET card == credit_cards[1]
            rows == MatchedRows(card)
        IN  /\ (ret.search_results = <<>>) <=> (TableScore(card) = 0)
            /\ ret.search_results # <<>> =>
                  /\ Len(ret.search_results) = 1
                  /\ ret.search_results[1].score = TableScore(card)
                  /\ Len(ret.search_results[1].match_reasons)
                        = (IF Len(rows) < 3 THEN Len(rows) ELSE 3)
                  /\ \A k \in DOMAIN ret.search_results[1].match_reasons :
                        ret.search_results[1].match_reasons[k] = rows[k].reason

\* C23 witness: a card matched on name, issuer, currency, a reward category,
\* a lounge type and its card type (10 + 5 + 3 + 2 + 2 + 3), of which the
\* first three are the reasons listed.
C23_Witness ==
    /\ ScoredOne
    /\ ret.search_results # <<>>
    /\ ret.search_results[1].score = 25
    /\ Len(MatchedRows(credit_cards[1])) = 6
    /\ ret.search_results[1].match_reasons
          = <<[label |-> "Card name match"], [label |-> "Issuer match"],
              [label |-> "Rewards currency match"]>>

-----------------------------------------------------------------------------
(* The mutators of user.json: each loads the whole document with           *)
(* get_user_data, changes it and writes it back with save_user_data.       *)
(* `user` is the content of the file when it is loaded, t the time of the  *)
(* save; the result holds the returned value (ok), whether                 *)
(* save_user_data ran (saved) and the content of the file afterwards       *)
(* (user).                                                                 *)

\* d[key] = v on a dict.
Put(d, key, v) == [k \in DOMAIN d \cup {key} |-> IF k = key THEN v ELSE d[k]]

\* items of a dict after d[key] = value: an existing key keeps its place.
SetItem(items, key, value) ==
    IF \E i \in DOMAIN items : items[i].key = key
    THEN [i \in DOMAIN items |->
             IF items[i].key = key THEN [key |-> key, value |-> value] ELSE items[i]]
    ELSE Append(items, [key |-> key, value |-> value])

\* items of a dict after del d[key].
DelItem(items, key) == SelectSeq(items, LAMBDA it : it.key # key)

\* save_user_data(data): stamps last_updated and writes the document.
save_user_data(data, t) == Put(data, "last_updated", t)

Saved(ok, data, t) == [ok |-> ok, saved |-> TRUE, user |-> save_user_data(data, t)]

NotSaved(ok, user) == [ok |-> ok, saved |-> FALSE, user |-> user]

\* The entries the loop of add_card_to_wallet takes for the card already in
\* the wallet: those whose name equals the given name, case-insensitively.
InWallet(wallet, card_name) ==
    {i \in DOMAIN wallet : Lower(WalletName(wallet[i])) = Lower(card_name)}

add_card_to_wallet(cards, user, card_name, note, wr, t) ==
    LET card == get_credit_card_by_name(cards, card_name, wr)
    IN  IF card = None THEN NotSaved(FALSE, user)
        ELSE LET user_data_ == get_user_data(user)
                 wallet == Get(user_data_, "wallet", <<>>)
                 canonical == cards[card.card].card_name
                 existing == InWallet(wallet, card_name)
             IN  IF existing # {}
                 THEN Saved(TRUE,
                          IF note # <<>>
                          THEN Put(user_data_, "wallet",
                                   [wallet EXCEPT ![Min(existing)] = Put(@, "note", note)])
                          ELSE user_data_,
                          t)
                 ELSE Saved(TRUE,
                          Put(user_data_, "wallet",
                              Append(wallet, [card_name |-> canonical, note |-> note])),
                          t)

\* The removal that always saves.
RemoveAlwaysSaving(user, card_name, t) ==
    LET user_data_ == get_user_data(user)
        wallet == Get(user_data_, "wallet", <<>>)
        kept == SelectSeq(wallet, LAMBDA c : Lower(WalletName(c)) # Lower(card_name))
    IN  Saved(Len(kept) < Len(wallet), Put(user_data_, "wallet", kept), t)

remove_card_from_wallet(user, card_name, t) ==
    LET user_data_ == get_user_data(user)
        wallet == Get(user_data_, "wallet", <<>>)
        kept == SelectSeq(wallet, LAMBDA c : Lower(WalletName(c)) # Lower(card_name))
    IN  IF Len(kept) < Len(wallet)
        THEN Saved(TRUE, Put(user_data_, "wallet", kept), t)
        ELSE NotSaved(FALSE, user)

\* The valuation stored under the name as given.
SetCustomValuationAsGiven(user, currency, value, t) ==
    LET user_data_ == get_user_data(user)
        custom_vals == Get(user_data_, "custom_valuations", <<>>)
    IN  Saved(None, Put(user_data_, "custom_valuations",
                        SetItem(custom_vals, currency, value)), t)

set_custom_valuation(user, currency, value, t) ==
    LET user_data_ == get_user_data(user)
        custom_vals == Get(user_data_, "custom_valuations", <<>>)
        key == NormalizeKey(currency)
    IN  Saved(None, Put(user_data_, "custom_valuations", SetItem(custom_vals, key, value)), t)

\* The credit added to the empty structure instead of the loaded document.
AddMerchantCreditToEmpty(user, merchant, t) ==
    LET user_data_ == get_user_data(None)
        credits == Get(user_data_, "credits", <<>>)
    IN  Saved(None, Put(user_data_, "credits", SetItem(credits, merchant, [added_at |-> t])), t)

add_merchant_credit(user, merchant, t) ==
    LET user_data_ == get_user_data(user)
        credits == Get(user_data_, "credits", <<>>)
    IN  Saved(None, Put(user_data_, "credits", SetItem(credits, merchant, [added_at |-> t])), t)

remove_merchant_credit(user, merchant, t) ==
    LET user_data_ == get_user_data(user)
        credits == Get(user_data_, "credits", <<>>)
    IN  IF \E i \in DOMAIN credits : credits[i].key = merchant
        THEN Saved(TRUE, Put(user_data_, "credits", DelItem(credits, merchant)), t)
        ELSE NotSaved(FALSE, user)

-----------------------------------------------------------------------------
(* The user document: user.json does not exist at start, then mutators     *)
(* and readers are called one after the other.  Every mutator call takes   *)
(* an hour of the clock.                                                   *)

\* Most mutator calls of a run.
MaxWrites == 3

UserCatalog ==
    <<[card_name |-> sAb, annual_fee |-> Fee(1)], [card_name |-> sCd, annual_fee |-> Fee(2)]>>

\* valuations.json with a default for cd and for u_d.
UserValuationFile ==
    [valuations |-> <<Item(s_cd_key, [num |-> 80]), Item(s_u_d, [obj |-> [value |-> 150]])>>]

\* Names given to the wallet mutators: a name in another case, the same name
\* padded with spaces, and an informal name that resolves by fuzzy matching,
\* if at all.
WalletNamesTried == {s_ab, s_Ab_padded, sZ}

\* fuzz.WRatio of a name against the catalog names: the informal name may
\* reach the threshold against Ab.
UserTables(card_name) ==
    {[n \in NameSet(UserCatalog) |-> 0]}
        \cup (IF card_name = sZ
              THEN {[n \in NameSet(UserCatalog) |->
                        IF n = sAb THEN FUZZY_MATCH_THRESHOLD ELSE 0]}
              ELSE {})

InitUser ==
    /\ credit_cards = UserCatalog
    /\ transfer_partners = ValuationPartners
    /\ valuations_json = UserValuationFile
    /\ user_data = None
    /\ valuations = get_user_valuations(valuations_json, user_data)
    /\ now = 0
    /\ call = Idle
    /\ ret = None
    /\ loaded = <<>>
    /\ download_cache = <<>>

\* A mutator call with result r: the file, the table read from it and the clock.
Mutated(r) ==
    /\ now < MaxWrites
    /\ now' = now + 1
    /\ ret' = [ok |-> r.ok, saved |-> r.saved]
    /\ user_data' = r.user
    /\ valuations' = get_user_valuations(valuations_json, r.user)
    /\ UNCHANGED <<credit_cards, transfer_partners, valuations_json, loaded, download_cache>>

AddCardToWallet ==
    \E card_name \in WalletNamesTried, note \in {sEmpty, sX} :
      \E wr \in UserTables(card_name) :
        /\ call' = [fn |-> "add_card_to_wallet", card_name |-> card_name, note |-> note,
                    wr |-> wr]
        /\ Mutated(add_card_to_wallet(credit_cards, user_data, card_name, note, wr, now + 1))

RemoveCardFromWallet ==
    \E card_name \in WalletNamesTried :
        /\ call' = [fn |-> "remove_card_from_wallet", card_name |-> card_name]
        /\ Mutated(remove_card_from_wallet(user_data, card_name, now + 1))

SetCustomValuation ==
    \E currency \in {sCd, s_uD}, value \in {210, 300} :
        /\ call' = [fn |-> "set_custom_valuation", currency |-> currency, value |-> value]
        /\ Mutated(set_custom_valuation(user_data, currency, value, now + 1))

AddMerchantCredit ==
    \E merchant \in {sX} :
        /\ call' = [fn |-> "add_merchant_credit", merchant |-> merchant]
        /\ Mutated(add_merchant_credit(user_data, merchant, now + 1))

RemoveMerchantCredit ==
    \E merchant \in {sX} :
        /\ call' = [fn |-> "remove_merchant_credit", merchant |-> merchant]
        /\ Mutated(remove_merchant_credit(user_data, merchant, now + 1))

\* lookup_transfer_partners("A", "from") with the table get_user_valuations gives.
LookupFromSource ==
    /\ call' = [fn |-> "lookup_transfer_partners", program_name |-> sA, direction |-> "from"]
    /\ ret' = lookup_transfer_partners(transfer_partners,
                   get_user_valuations(valuations_json, user_data), sA, "from")
    /\ UNCHANGED files

NextUser ==
    \/ AddCardToWallet
    \/ RemoveCardFromWallet
    \/ SetCustomValuation
    \/ AddMerchantCredit
    \/ RemoveMerchantCredit
    \/ LookupFromSource

SpecUser == InitUser /\ [][NextUser]_vars

\* The sections of the stored document as the readers see them.
Wallet == Get(get_user_data(user_data), "wallet", <<>>)

CustomItemsOf(user) == Get(get_user_data(user), "custom_valuations", <<>>)

Credits == Get(get_user_data(user_data), "credits", <<>>)

\* The step is a call of the mutator fn.
MutatorStep(fn) == now' # now /\ call'.fn = fn

\* C25: every wallet entry's card_name is a card_name of the catalog and no
\* two wallet entries have the same card_name.
C25_CanonicalDistinct ==
    /\ \A i \in DOMAIN Wallet : WalletName(Wallet[i]) \in NameSet(credit_cards)
    /\ \A i \in DOMAIN Wallet, j \in DOMAIN Wallet :
          i # j => WalletName(Wallet[i]) # WalletName(Wallet[j])

\* The part of C25 the code does guarantee: the names are canonical.
C25_Canonical ==
    \A i \in DOMAIN Wallet : WalletName(Wallet[i]) \in NameSet(credit_cards)

\* The canonical name the last add_card_to_wallet call resolved its name to.
AddedName ==
    credit_cards[get_credit_card_by_name(credit_cards, call.card_name, call.wr).card].card_name

\* C26: a remove_card_from_wallet(x) that follows an add_card_to_wallet(x)
\* which returned True returns True and leaves the wallet without the card
\* the add put in, the other entries as they were.
C26_AddThenRemove ==
    [][(/\ call.fn = "add_card_to_wallet"
        /\ ret.ok
        /\ MutatorStep("remove_card_from_wallet")
        /\ call'.card_name = call.card_name)
       => (/\ ret'.ok
           /\ Wallet' = SelectSeq(Wallet, LAMBDA c : WalletName(c) # AddedName))]_vars

Refusing == {"add_card_to_wallet", "remove_card_from_wallet", "remove_merchant_credit"}

Mutators == Refusing \cup {"set_custom_valuation", "add_merchant_credit"}

\* C27: a mutator call that returns False leaves the stored document as it
\* is, last_updated included; every other mutator call stamps last_updated
\* with the time of its save.
C27_FalseWritesNothing ==
    [][\A fn \in Mutators :
          MutatorStep(fn) =>
              IF fn \in Refusing /\ ~ret'.ok
              THEN user_data' = user_data
              ELSE /\ user_data' # None
                   /\ "last_updated" \in DOMAIN user_data'
                   /\ user_data'.last_updated = now']_vars

\* C27 witness: a removal of a card that is not in the wallet returned False
\* and the document still carries the stamp of an earlier save.
C27_Witness ==
    /\ call.fn = "remove_card_from_wallet"
    /\ ~ret.ok
    /\ user_data # None
    /\ Wallet # <<>>
    /\ user_data.last_updated < now

\* The custom valuations of the stored document, by key.
Custom == DictOf(CustomItemsOf(user_data))

\* C29: set_custom_valuation(c, v) makes get_user_valuations map the
\* normalized key of c to v and leaves wallet and credits as they are; no
\* other call changes the value of a key that was set; and
\* lookup_transfer_partners 'from' attaches the value set to every
\* destination whose name normalizes to such a key.
C29_CustomValuationHolds ==
    /\ [][/\ MutatorStep("set_custom_valuation") =>
               /\ get_user_valuations(valuations_json, user_data')
                      [NormalizeKey(call'.currency)] = call'.value
               /\ Custom'[NormalizeKey(call'.currency)] = call'.value
               /\ Wallet' = Wallet
               /\ Credits' = Credits
          /\ \A k \in DOMAIN Custom :
                ~(MutatorStep("set_custom_valuation") /\ NormalizeKey(call'.currency) = k)
                => /\ k \in DOMAIN Custom'
                   /\ Custom'[k] = Custom[k]
                   /\ get_user_valuations(valuations_json, user_data')[k] = Custom[k]]_vars
    /\ [](call.fn = "lookup_transfer_partners" =>
            \A n \in DOMAIN ret.dest_programs :
                NormalizeKey(ret.dest_programs[n].loyalty_program) \in DOMAIN Custom =>
                    ret.dest_programs[n].valuation
                        = Custom[NormalizeKey(ret.dest_programs[n].loyalty_program)])

\* C29 witness: after set_custom_valuation("u-D", 300) and another mutator
\* call, the lookup lists both destinations of the key u_d at 300, not at
\* the default 150.
C29_Witness ==
    /\ call.fn = "lookup_transfer_partners"
    /\ s_u_d \in DOMAIN Custom
    /\ Custom[s_u_d] = 300
    /\ Wallet # <<>>
    /\ Cardinality({n \in DOMAIN ret.dest_programs :
                       /\ NormalizeKey(ret.dest_programs[n].loyalty_program) = s_u_d
                       /\ ret.dest_programs[n].valuation = 300}) = 2

-----------------------------------------------------------------------------
(* Two writers: each calls one mutator, and the other may run between the  *)
(* get_user_data() and the save_user_data() of a call.                     *)

Writers == {1, 2}

\* One call of each mutator, on a target of its own.
WriterOps ==
    {[fn |-> "add_card_to_wallet", card_name |-> s_ab, note |-> sEmpty],
     [fn |-> "remove_card_from_wallet", card_name |-> sCd],
     [fn |-> "set_custom_valuation", currency |-> sCd, value |-> 300],
     [fn |-> "add_merchant_credit", merchant |-> sZ],
     [fn |-> "remove_merchant_credit", merchant |-> sX]}

\* user.json at start: absent, or holding the card Cd and the credit X.
WriterFiles ==
    {None,
     [wallet |-> <<[card_name |-> sCd, note |-> sEmpty]>>,
      custom_valuations |-> <<>>,
      credits |-> <<[key |-> sX, value |-> [added_at |-> 0]]>>,
      last_updated |-> 0]}

InitWriters ==
    /\ credit_cards = UserCatalog
    /\ transfer_partners = <<>>
    /\ valuations_json = UserValuationFile
    /\ user_data \in WriterFiles
    /\ valuations = get_user_valuations(valuations_json, user_data)
    /\ now = 0
    /\ call = Idle
    /\ ret = None
    /\ loaded = [w \in Writers |-> Idle]
    /\ download_cache = <<>>

\* The mutator op run on the document it loaded.
Apply(op, user, t) ==
    CASE op.fn = "add_card_to_wallet" ->
             add_card_to_wallet(credit_cards, user, op.card_name, op.note,
                                [n \in NameSet(credit_cards) |-> 0], t)
      [] op.fn = "remove_card_from_wallet" -> remove_card_from_wallet(user, op.card_name, t)
      [] op.fn = "set_custom_valuation" ->
             set_custom_valuation(user, op.currency, op.value, t)
      [] op.fn = "add_merchant_credit" -> add_merchant_credit(user, op.merchant, t)
      [] op.fn = "remove_merchant_credit" -> remove_merchant_credit(user, op.merchant, t)

\* Writer w enters a mutator and reads user.json.
Load(w) ==
    \E op \in WriterOps :
        /\ loaded[w] = Idle
        /\ loaded' = [loaded EXCEPT ![w] = [op |-> op, user |-> user_data, phase |-> "loaded"]]
        /\ UNCHANGED <<credit_cards, transfer_partners, valuations, valuations_json,
                       user_data, now, call, ret, download_cache>>

\* Writer w changes the document it read, writes it and returns.  `serial`
\* records whether the file still was as the writer had read it.
Save(w) ==
    /\ "phase" \in DOMAIN loaded[w]
    /\ loaded[w].phase = "loaded"
    /\ LET r == Apply(loaded[w].op, loaded[w].user, now + 1)
       IN  /\ user_data' = IF r.saved THEN r.user ELSE user_data
           /\ valuations' =
                 get_user_valuations(valuations_json, IF r.saved THEN r.user ELSE user_data)
           /\ ret' = [ok |-> r.ok, saved |-> r.saved]
           /\ loaded' = [loaded EXCEPT ![w] =
                            [op |-> loaded[w].op, phase |-> "done", saved |-> r.saved,
                             serial |-> (loaded[w].user = user_data)]]
    /\ call' = loaded[w].op
    /\ now' = now + 1
    /\ UNCHANGED <<credit_cards, transfer_partners, valuations_json, download_cache>>

NextWriters == \E w \in Writers : Load(w) \/ Save(w)

SpecWriters == InitWriters /\ [][NextWriters]_vars

Done(w) == "phase" \in DOMAIN loaded[w] /\ loaded[w].phase = "done"

\* The change the mutator call op makes is in the stored document.
Effect(op) ==
    CASE op.fn = "add_card_to_wallet" ->
             \E i \in DOMAIN Wallet : Lower(WalletName(Wallet[i])) = Lower(op.card_name)
      [] op.fn = "remove_card_from_wallet" ->
             \A i \in DOMAIN Wallet : Lower(WalletName(Wallet[i])) # Lower(op.card_name)
      [] op.fn = "set_custom_valuation" ->
             /\ NormalizeKey(op.currency) \in DOMAIN Custom
             /\ Custom[NormalizeKey(op.currency)] = op.value
      [] op.fn = "add_merchant_credit" ->
             \E i \in DOMAIN Credits : Credits[i].key = op.merchant
      [] op.fn = "remove_merchant_credit" ->
             \A i \in DOMAIN Credits : Credits[i].key # op.merchant

\* C28: when the mutator calls run one at a time (each saves onto the
\* document it loaded) no update is lost: the change of every finished call
\* is in the stored document.
C28_SerialKeepsUpdates ==
    (\A w \in Writers : Done(w) => loaded[w].serial) =>
        \A w \in Writers : Done(w) => Effect(loaded[w].op)

\* C28 witness, the lost update: both calls have saved and returned, the
\* second onto a document it had loaded before the first saved, and the
\* change of the first is not in the stored document.
C28_Witness ==
    /\ \A w \in Writers : Done(w) /\ loaded[w].saved
    /\ loaded[1].op.fn # loaded[2].op.fn
    /\ \E w \in Writers : loaded[w].serial /\ ~Effect(loaded[w].op)
    /\ \E w \in Writers : ~loaded[w].serial /\ Effect(loaded[w].op)

-----------------------------------------------------------------------------
(* miles.download_data_files(): the check of the updater service, with the *)
(* answers of the service as inputs.  The terms of use are accepted.  A    *)
(* data file that is absent holds <<>> (None for valuations.json).         *)

data_files == <<"credit_cards", "transfer_partners", "valuations">>

\* _validate_credit_cards_data
validate_credit_cards_data(data) ==
    /\ "list" \in DOMAIN data
    /\ Len(data.list) > 0 => {"card_name", "issuer"} \subseteq DOMAIN data.list[1]

\* _validate_transfer_partners_data
validate_transfer_partners_data(data) == "obj" \in DOMAIN data

\* _validate_valuations_data; the entries are items [key, val_data].
validate_valuations_data(data) ==
    /\ "obj" \in DOMAIN data
    /\ "valuations" \in DOMAIN data.obj
    /\ Len(data.obj.valuations) > 0 =>
          LET sample_val == data.obj.valuations[1].val_data
          IN  IF "obj" \in DOMAIN sample_val THEN "value" \in DOMAIN sample_val.obj
              ELSE "num" \in DOMAIN sample_val

IsValid(dataset_type, data) ==
    CASE dataset_type = "credit_cards" -> validate_credit_cards_data(data)
      [] dataset_type = "transfer_partners" -> validate_transfer_partners_data(data)
      [] dataset_type = "valuations" -> validate_valuations_data(data)

\* file_path.exists() for the file of a dataset, in the run's state acc.
FileExists(acc, dataset_type) ==
    CASE dataset_type = "credit_cards" -> acc.credit_cards # <<>>
      [] dataset_type = "transfer_partners" -> acc.transfer_partners # <<>>
      [] dataset_type = "valuations" -> acc.valuations_json # None

\* cached_data.get("datasets", {}).get(dataset_type, {}).get("last_modified")
CachedLastModified(cached_data, dataset_type) ==
    Get(Get(Get(cached_data, "datasets", <<>>), dataset_type, <<>>), "last_modified", "")

\* file_path.write_text(json.dumps(data))
WriteFile(acc, dataset_type, data) ==
    CASE dataset_type = "credit_cards" -> [acc EXCEPT !.credit_cards = data.list]
      [] dataset_type = "transfer_partners" -> [acc EXCEPT !.transfer_partners = data.obj]
      [] dataset_type = "valuations" -> [acc EXCEPT !.valuations_json = data.obj]

\* The last_modified recorded for a dataset that was written; the
\* Last-Modified header of the response is its field Last_Modified.
RecordedLastModified(server_last_modified, response) ==
    IF server_last_modified = "" /\ "Last_Modified" \in DOMAIN response
    THEN response.Last_Modified ELSE server_last_modified

\* One pass of the loop over data_files.
Fetch(acc, dataset_type, dataset_info, response) ==
    LET server_last_modified == Get(dataset_info, "last_modified", "")
        cached_last_modified == CachedLastModified(acc.cached_data, dataset_type)
        failed == [acc EXCEPT !.failed = @ \cup {dataset_type},
                              !.requested = @ \cup {dataset_type}]
    IN  IF ~Get(dataset_info, "available", TRUE) THEN acc
        ELSE IF /\ server_last_modified # ""
                /\ server_last_modified = cached_last_modified
                /\ FileExists(acc, dataset_type)
        THEN acc
        ELSE IF response.kind = "not_modified"
        THEN [acc EXCEPT !.requested = @ \cup {dataset_type}]
        ELSE IF response.kind \in {"error", "invalid_json"} THEN failed
        ELSE IF ~IsValid(dataset_type, response.data) THEN failed
        ELSE LET written == WriteFile(acc, dataset_type, response.data)
                 datasets == Get(acc.cached_data, "datasets", <<>>)
             IN  [written EXCEPT
                    !.requested = @ \cup {dataset_type},
                    !.cached_data = Put(@, "datasets",
                        Put(datasets, dataset_type,
                            [last_modified |->
                                RecordedLastModified(server_last_modified, response)]))]

RECURSIVE FetchFrom(_, _, _, _)
FetchFrom(acc, i, datasets, responses) ==
    IF i > Len(data_files) THEN acc
    ELSE FetchFrom(Fetch(acc, data_files[i], Get(datasets, data_files[i], <<>>),
                         responses[data_files[i]]),
                   i + 1, datasets, responses)

\* if server_version: cached_data["version"] = server_version
RecordVersion(acc, server_version) ==
    IF server_version # "" THEN Put(acc.cached_data, "version", server_version)
    ELSE acc.cached_data

\* download_data_files(): start is the state of the files and of the cache
\* file; status is the answer of the status endpoint, responses the answer
\* a GET of each dataset would get.  The result holds the files, the cache
\* file (cache), the datasets requested and those that failed.
download_data_files(start, status, responses) ==
    LET acc0 == [credit_cards |-> start.credit_cards,
                 transfer_partners |-> start.transfer_partners,
                 valuations_json |-> start.valuations_json,
                 cached_data |-> start.cache,
                 cache |-> start.cache,
                 requested |-> {}, failed |-> {}]
    IN  IF "offline" \in DOMAIN status THEN acc0
        ELSE LET server_version == Get(status, "version", "")
             IN  IF server_version # "" /\ server_version = Get(start.cache, "version", "")
                 THEN acc0
                 ELSE LET acc == FetchFrom(acc0, 1, Get(status, "datasets", <<>>), responses)
                          cached_data == RecordVersion(acc, server_version)
                      IN  [acc EXCEPT
                             !.cached_data = cached_data,
                             !.cache = IF Get(cached_data, "datasets", <<>>) # <<>>
                                       THEN cached_data ELSE start.cache]

-----------------------------------------------------------------------------
(* The scheduled checks: no data file and no cache at start, then the      *)
(* service is checked once a day.                                          *)

\* Most checks of a run.
MaxChecks == 2

\* Answers of the status endpoint: offline, no version, two versions; the
\* datasets with their times, without them, or valuations not generated.
Statuses ==
    {[offline |-> TRUE]}
        \cup {[version |-> v, datasets |-> d] :
                 v \in {"", "v1", "v2"},
                 d \in {<<>>,
                        [credit_cards |-> [last_modified |-> "t1"],
                         transfer_partners |-> [last_modified |-> "t1", available |-> TRUE],
                         valuations |-> [available |-> FALSE]],
                        [credit_cards |-> [last_modified |-> "t1"],
                         valuations |-> [last_modified |-> "t2"]]}}

DownloadedCatalog == <<[card_name |-> sAb, issuer |-> sX]>>

\* Answers to the GET of a dataset: a document that passes validation, one
\* that does not, a body that is not JSON, a failed request, 304.
Responses(dataset_type) ==
    CASE dataset_type = "credit_cards" ->
             {[kind |-> "ok", data |-> [list |-> DownloadedCatalog]],
              [kind |-> "ok", data |-> [list |-> <<[card_name |-> sAb]>>]],
              [kind |-> "error"]}
      [] dataset_type = "transfer_partners" ->
             {[kind |-> "ok", data |-> [obj |-> ValuationPartners]],
              [kind |-> "ok", data |-> [list |-> <<>>]],
              [kind |-> "invalid_json"]}
      [] dataset_type = "valuations" ->
             {[kind |-> "ok", data |-> [obj |-> UserValuationFile]]}
                 \cup {[kind |-> "ok", data |-> [obj |-> UserValuationFile],
                        Last_Modified |-> "h1"]}
                 \cup {[kind |-> "ok", data |->
                           [obj |-> [valuations |-> <<Item(s_cd_key, [str |-> sX])>>]]],
                       [kind |-> "ok", data |-> [obj |-> [version |-> "1.0"]]],
                       [kind |-> "not_modified"]}

InitDownload ==
    /\ credit_cards = <<>>
    /\ transfer_partners = <<>>
    /\ valuations = <<>>
    /\ valuations_json = None
    /\ user_data = None
    /\ now = 0
    /\ call = Idle
    /\ ret = None
    /\ loaded = <<>>
    /\ download_cache = <<>>

DownloadDataFiles ==
    \E status \in Statuses :
      \E responses \in [credit_cards : Responses("credit_cards"),
                         transfer_partners : Responses("transfer_partners"),
                         valuations : Responses("valuations")] :
        /\ now < MaxChecks * HoursPerDay
        /\ now' = now + HoursPerDay
        /\ LET r == download_data_files(
                        [credit_cards |-> credit_cards, transfer_partners |-> transfer_partners,
                         valuations_json |-> valuations_json, cache |-> download_cache],
                        status, responses)
           IN  /\ credit_cards' = r.credit_cards
               /\ transfer_partners' = r.transfer_partners
               /\ valuations_json' = r.valuations_json
               /\ download_cache' = r.cache
               /\ valuations' = get_user_valuations(r.valuations_json, user_data)
               /\ call' = [fn |-> "download_data_files",
                           version |-> Get(status, "version", ""),
                           unavailable |->
                               {d \in DOMAIN Get(status, "datasets", <<>>) :
                                   ~Get(status.datasets[d], "available", TRUE)},
                           requested |-> r.requested, failed |-> r.failed]
        /\ ret' = None
        /\ UNCHANGED <<user_data, loaded>>

NextDownload == DownloadDataFiles

SpecDownload == InitDownload /\ [][NextDownload]_vars

\* The last call was a check that reached the service, which named a version.
Checked == call.fn = "download_data_files" /\ call.version # ""

\* C30: download_data_files records the server version in the download
\* cache only when every dataset was downloaded or confirmed up to date in
\* that run: after a check in which the download or the validation of a
\* dataset failed, the cache file does not hold the version the server
\* named, so that the next check does not stop at the unchanged version.
C30_VersionOnlyWhenComplete ==
    (Checked /\ call.failed # {}) => Get(download_cache, "version", "") # call.version

\* C30, the consequence: a dataset that failed in one check is requested
\* by the next check when the server names the same version and still
\* offers the dataset.
C30_FailedRequestedAgain ==
    [][(Checked /\ now' # now /\ call'.fn = "download_data_files"
            /\ call'.version = call.version)
         => \A d \in call.failed \ call'.unavailable : d \in call'.requested]_vars

\* C30, second half: a check leaves the file of every dataset whose
\* download, parsing or validation failed as it was.
C30_InvalidNeverOverwrites ==
    [][(now' # now /\ call'.fn = "download_data_files")
         => /\ "credit_cards" \in call'.failed => credit_cards' = credit_cards
            /\ "transfer_partners" \in call'.failed => transfer_partners' = transfer_partners
            /\ "valuations" \in call'.failed => valuations_json' = valuations_json]_vars

\* A check failed for a dataset whose file exists.
C30_FailedOverExistingFile ==
    ~(Checked /\ "credit_cards" \in call.failed /\ credit_cards # <<>>)

====
